---- MODULE Spec2Model ----
(***************************************************************************)
(* Model of MDAnalysis/coordinates/TRJ.py: the AMBER NetCDF trajectory     *)
(* writer (NCDFWriter) and reader (NCDFReader) working on one container    *)
(* file.  Floating point numbers are modelled as exact rationals <<n, d>>  *)
(* in lowest terms; arrays are sequences of such numbers.                  *)
(***************************************************************************)
EXTENDS Integers, Sequences, FiniteSets, TLC

VARIABLES
    wstatus,    \* "absent" | "constructed" | "failed": outcome of NCDFWriter.__init__
    writer,     \* the attributes of the NCDFWriter instance
    ncfile,     \* the container as held by the netCDF library of the writer
    disk,       \* the container as last synced to the file
    n_created,  \* how many times the container file was created (opened with 'w')
    written,    \* the timesteps of the write calls that returned normally
    rstatus,    \* "absent" | "constructed" | "failed": outcome of NCDFReader.__init__
    reader,     \* the attributes of the NCDFReader instance
    ts,         \* the reader's Timestep (frame buffer)
    call,       \* the last operation called and its arguments
    result,     \* how the last operation ended: "ok" or the exception raised
    dt,         \* the value that NCDFReader._get_dt returned last
    kwargs,     \* the keyword arguments of the last NCDFReader.Writer call
    afile,      \* the ASCII trajectory file
    trj,        \* the attributes of the TRJReader instance and of its Timestep
    files,      \* the containers on the file system, by path
    handles,    \* the NCDFPicklable objects, in the order of their creation
    pickle,     \* the state that __getstate__ returned last
    caller      \* what the caller of the readers and of the writer holds

vars == <<wstatus, writer, ncfile, disk, n_created, written, rstatus, reader, ts,
          call, result, dt, kwargs, afile, trj, files, handles, pickle, caller>>

wvars == <<wstatus, writer, ncfile, disk, n_created, written>>
rvars == <<rstatus, reader, ts>>
avars == <<afile, trj>>
pvars == <<files, handles, pickle>>
ovars == <<dt, kwargs, avars, pvars, caller>>

----------------------------------------------------------------------------
(* Bounds and sample inputs *)

MaxFrames == 2    \* write calls that may succeed on one writer
NAtoms == 2       \* atoms of the system that is written

AtomCounts == {-1, 0, NAtoms - 1, NAtoms}
FrameAtomCounts == {NAtoms - 1, NAtoms}
Seeds == {1, 2}
FrameIndices == -1 .. (MaxFrames + 1)

----------------------------------------------------------------------------
(* Rational arithmetic standing for Python/numpy float arithmetic *)

Abs(x) == IF x < 0 THEN -x ELSE x
Max(a, b) == IF a >= b THEN a ELSE b

RECURSIVE GCD(_, _)
GCD(a, b) == IF b = 0 THEN a ELSE GCD(b, a % b)

Rat(n, d) ==
    LET g == GCD(Abs(n), Abs(d))
        s == IF d < 0 THEN -1 ELSE 1
    IN  <<(s * n) \div g, (s * d) \div g>>

Fill == <<0, 0>>   \* a value of a record that was never stored (netCDF _FillValue)
NoData == <<>>     \* Python None / a Timestep without that array

RMul(a, b) == IF a = Fill THEN Fill ELSE Rat(a[1] * b[1], a[2] * b[2])
RDiv(a, b) == IF a = Fill THEN Fill ELSE Rat(a[1] * b[2], a[2] * b[1])
RSub(a, b) == Rat(a[1] * b[2] - b[1] * a[2], a[2] * b[2])

MulArr(arr, f) == [i \in DOMAIN arr |-> RMul(arr[i], f)]
DivArr(arr, f) == [i \in DOMAIN arr |-> RDiv(arr[i], f)]

\* math.isclose(x, 1): abs(x - 1) <= 1e-09 * max(abs(x), 1), abs_tol = 0
RelTolInv == 1000000000
isclose1(x) == Abs(x[1] - x[2]) <= Max(Abs(x[1]), x[2]) \div RelTolInv

----------------------------------------------------------------------------
(* Scale factors: None, a float, or a value of another type (an int) *)

ScaleVars == {"time", "cell_lengths", "cell_angles", "coordinates",
              "velocities", "forces"}

None == [kind |-> "None", v |-> <<0, 1>>]
FloatVal(n, d) == [kind |-> "float", v |-> Rat(n, d)]
IntVal(n) == [kind |-> "int", v |-> <<n, 1>>]

Near1 == [kind |-> "float", v |-> <<2000000001, 2000000000>>]

NoScale == [v \in ScaleVars |-> None]
Only(var, x) == [NoScale EXCEPT ![var] = x]

ScaleConfigs ==
    {NoScale} \cup {Only(v, FloatVal(2, 1)) : v \in ScaleVars}
      \cup {Only("time", FloatVal(1, 2)), Only("coordinates", Near1),
            Only("velocities", FloatVal(1, 1)), Only("time", IntVal(2))}

\* remarks=None, the default of NCDFWriter(...)
NoRemarks == "<None>"

\* the keyword arguments of NCDFWriter(...) that are tried
Cfg(n, cu, v, f, sc) ==
    [n_atoms |-> n, remarks |-> NoRemarks, convert_units |-> cu, velocities |-> v,
     forces |-> f, scale_factors |-> sc]

WriterConfigs ==
    {Cfg(n, TRUE, FALSE, FALSE, NoScale) : n \in AtomCounts}
      \cup {Cfg(NAtoms, cu, v, f, NoScale) : cu \in BOOLEAN, v \in BOOLEAN, f \in BOOLEAN}
      \cup {Cfg(NAtoms, cu, TRUE, TRUE, sc) : cu \in BOOLEAN, sc \in ScaleConfigs}
      \cup {[Cfg(NAtoms, TRUE, FALSE, FALSE, NoScale) EXCEPT !.remarks = "mine"]}

\* isinstance(value, (float, np.floating))
IsFloat(x) == x.kind = "float"
\* Python truth value of a scale factor: None and 0.0 are false
Truthy(x) == x.kind # "None" /\ x.v[1] # 0

----------------------------------------------------------------------------
(* Timesteps handed to the writer *)

Shapes == {"full", "nobox", "boxonly", "bare"}

SampleArr(n, base) == [i \in 1 .. 3 * n |-> <<base + i, 1>>]

SampleBox(seed) ==
    << <<20 + seed, 1>>, <<30 + seed, 1>>, <<40 + seed, 1>>,
       <<90, 1>>, <<90, 1>>, <<90, 1>> >>

Frame(seed, n, shape) ==
    [n_atoms    |-> n,
     pos        |-> SampleArr(n, 10 * seed),
     time       |-> <<seed, 1>>,
     dimensions |-> IF shape \in {"full", "boxonly"} THEN SampleBox(seed) ELSE NoData,
     velocities |-> IF shape \in {"full", "nobox"} THEN SampleArr(n, 100 * seed) ELSE NoData,
     forces     |-> IF shape \in {"full", "nobox"} THEN SampleArr(n, 523 * seed) ELSE NoData]

NoFrame ==
    [n_atoms |-> 0, pos |-> NoData, time |-> <<0, 1>>, dimensions |-> NoData,
     velocities |-> NoData, forces |-> NoData]

\* what is recorded of a call: the operation, the atom count or frame index
\* passed, and which arrays the timestep passed to write_frame carries
Called(op, n_atoms, k, t) ==
    [op |-> op, n_atoms |-> n_atoms, k |-> k,
     has_box |-> t.dimensions # NoData,
     has_velocities |-> t.velocities # NoData,
     has_forces |-> t.forces # NoData]

Frames == {Frame(s, n, sh) : s \in Seeds, n \in FrameAtomCounts, sh \in Shapes}

----------------------------------------------------------------------------
(* Unit conversion (base.py): lengths, times and velocities are already in  *)
(* the native units; forces go from kJ/(mol*A) to kcal/(mol*A)              *)

LengthFactor == <<1, 1>>
TimeFactor == <<1, 1>>
VelocityFactor == <<1, 1>>
ForceFactor == <<125, 523>>   \* 1 / 4.184

convert_pos_to_native(x) == MulArr(x, LengthFactor)
convert_time_to_native(t) == RMul(t, TimeFactor)
convert_velocities_to_native(x) == MulArr(x, VelocityFactor)
convert_forces_to_native(x) == MulArr(x, ForceFactor)
convert_pos_from_native(x) == DivArr(x, LengthFactor)
convert_velocities_from_native(x) == DivArr(x, VelocityFactor)
convert_forces_from_native(x) == DivArr(x, ForceFactor)

Zeros(n) == [i \in 1 .. n |-> <<0, 1>>]

\* lengths converted, angles untouched; a Timestep without box gives zeros
convert_dimensions_to_unitcell(t) ==
    IF t.dimensions = NoData THEN Zeros(6)
    ELSE convert_pos_to_native(SubSeq(t.dimensions, 1, 3)) \o SubSeq(t.dimensions, 4, 6)

----------------------------------------------------------------------------
(* The container file *)

NoFile == [exists |-> FALSE]

FillArr(n) == [i \in 1 .. n |-> Fill]

\* the length of one frame's slice of a variable
SliceLen(nc, var) ==
    CASE var = "time" -> 1
      [] var \in {"cell_lengths", "cell_angles"} -> 3
      [] OTHER -> 3 * nc.dims.atom

FrameVars(nc) == nc.vars \cap ScaleVars

EmptyRecord(nc) == [v \in FrameVars(nc) |-> FillArr(SliceLen(nc, v))]

\* variables[var][idx] = data, idx 0-based; the record dimension grows on demand
RECURSIVE Store(_, _, _, _)
Store(nc, var, idx, data) ==
    IF idx >= Len(nc.records)
    THEN Store([nc EXCEPT !.records = Append(@, EmptyRecord(nc))], var, idx, data)
    ELSE [nc EXCEPT !.records[idx + 1][var] = data]

----------------------------------------------------------------------------
(* NCDFWriter *)

NoWriter ==
    [n_atoms |-> 0, remarks |-> "", convert_units |-> FALSE, has_velocities |-> FALSE,
     has_forces |-> FALSE, scale_factors |-> NoScale, first_frame |-> FALSE,
     trjfile |-> "None", periodic |-> "None", curr_frame |-> 0]

\* __init__: "if n_atoms == 0: raise ValueError"
AtomCountAccepted(n_atoms) == n_atoms # 0

\* __init__: a scale factor is None or an instance of float
ScaleFactorAccepted(value) == ~((value # None) /\ ~IsFloat(value))

NCDFWriter_init_error(n_atoms, scale_factors) ==
    IF ~AtomCountAccepted(n_atoms) THEN "ValueError"
    ELSE IF \E v \in ScaleVars : ~ScaleFactorAccepted(scale_factors[v]) THEN "TypeError"
    ELSE "ok"

\* __init__: "self.remarks = remarks or <default>"
DefaultRemarks == "AMBER NetCDF format (MDAnalysis.coordinates.trj.NCDFWriter)"
RemarksOrDefault(remarks) == IF remarks \in {NoRemarks, ""} THEN DefaultRemarks ELSE remarks

NewWriter(n_atoms, remarks, convert_units, velocities, forces, scale_factors) ==
    [n_atoms |-> n_atoms, remarks |-> RemarksOrDefault(remarks),
     convert_units |-> convert_units,
     has_velocities |-> velocities, has_forces |-> forces,
     scale_factors |-> scale_factors, first_frame |-> TRUE,
     trjfile |-> "None", periodic |-> "None", curr_frame |-> 0]

\* "if self.scale_factors[var]: variable.scale_factor = self.scale_factors[var]"
ScaleAttr(w, var) == IF Truthy(w.scale_factors[var]) THEN w.scale_factors[var] ELSE None

WriterVars(w, periodic) ==
    {"coordinates", "spatial", "time"}
      \cup (IF periodic THEN {"cell_lengths", "cell_spatial", "cell_angles",
                              "cell_angular"} ELSE {})
      \cup (IF w.has_velocities THEN {"velocities"} ELSE {})
      \cup (IF w.has_forces THEN {"forces"} ELSE {})

\* mutant: the unit of the cell angles is written as "degrees"
UnitOf_degrees(var) ==
    CASE var = "coordinates" -> "angstrom"
      [] var = "time" -> "picosecond"
      [] var = "cell_lengths" -> "angstrom"
      [] var = "cell_angles" -> "degrees"
      [] var = "velocities" -> "angstrom/picosecond"
      [] var = "forces" -> "kilocalorie/mole/angstrom"
      [] OTHER -> ""

\* _init_netcdf: the units attribute set on each variable
UnitOf(var) ==
    CASE var = "coordinates" -> "angstrom"
      [] var = "time" -> "picosecond"
      [] var = "cell_lengths" -> "angstrom"
      [] var = "cell_angles" -> "degree"
      [] var = "velocities" -> "angstrom/picosecond"
      [] var = "forces" -> "kilocalorie/mole/angstrom"
      [] OTHER -> ""

\* mutant: the closed-file test is missing
InitAllowed_always(w) == TRUE

\* _init_netcdf: is the container allowed to be created?
InitAllowed(w) == w.first_frame

\* _init_netcdf: the container right after creation
NewContainer(w, periodic) ==
    [exists  |-> TRUE,
     version_byte |-> 2,
     attrs   |-> [a \in {"program", "programVersion", "Conventions",
                         "ConventionVersion", "application"} |->
                    CASE a = "program" -> "MDAnalysis.coordinates.TRJ.NCDFWriter"
                      [] a = "programVersion" -> "MDAnalysis.__version__"
                      [] a = "Conventions" -> "AMBER"
                      [] a = "ConventionVersion" -> "1.0"
                      [] OTHER -> "MDAnalysis"],
     dims    |-> [frame |-> 0, atom |-> w.n_atoms, spatial |-> 3,
                  cell_spatial |-> 3, cell_angular |-> 3, label |-> 5],
     vars    |-> WriterVars(w, periodic),
     units   |-> [v \in WriterVars(w, periodic) \cap ScaleVars |-> UnitOf(v)],
     scale   |-> [v \in WriterVars(w, periodic) \cap ScaleVars |-> ScaleAttr(w, v)],
     records |-> <<>>]

\* mutant: every timestep is taken to carry a box
is_periodic_always(t) == TRUE

\* is_periodic
is_periodic(t) == t.dimensions # NoData

\* mutant: the data is stored without dividing by the scale factor
ScaledForStore_unscaled(sfactor, data) == data

\* _set_frame_var_and_scale: the value stored for data
ScaledForStore(sfactor, data) ==
    IF sfactor = None \/ isclose1(sfactor.v) THEN data ELSE DivArr(data, sfactor.v)

\* _set_frame_var_and_scale: the frame index stored to
StoreIndex(w) == w.curr_frame

set_frame_var_and_scale(w, nc, varname, data) ==
    Store(nc, varname, StoreIndex(w), ScaledForStore(w.scale_factors[varname], data))

\* _write_next_timestep: [nc: the container afterwards, err: "ok" or the exception]
write_next_timestep(w, nc, t) ==
    LET pos == IF w.convert_units THEN convert_pos_to_native(t.pos) ELSE t.pos
        time == IF w.convert_units THEN convert_time_to_native(t.time) ELSE t.time
        unitcell == IF w.convert_units THEN convert_dimensions_to_unitcell(t)
                    ELSE t.dimensions
        nc1 == set_frame_var_and_scale(w, nc, "coordinates", pos)
        nc2 == set_frame_var_and_scale(w, nc1, "time", <<time>>)
        nc3 == IF w.periodic = "True"
               THEN set_frame_var_and_scale(w,
                        set_frame_var_and_scale(w, nc2, "cell_lengths",
                                                SubSeq(unitcell, 1, 3)),
                        "cell_angles", SubSeq(unitcell, 4, 6))
               ELSE nc2
        velocities == IF w.convert_units THEN convert_velocities_to_native(t.velocities)
                      ELSE t.velocities
        nc4 == IF w.has_velocities
               THEN set_frame_var_and_scale(w, nc3, "velocities", velocities)
               ELSE nc3
        forces == IF w.convert_units THEN convert_forces_to_native(t.forces)
                  ELSE t.forces
        nc5 == IF w.has_forces
               THEN set_frame_var_and_scale(w, nc4, "forces", forces)
               ELSE nc4
    IN  IF w.periodic = "True" /\ unitcell = NoData
        THEN [nc |-> nc2, err |-> "TypeError"]        \* None[:3]
        ELSE IF w.has_velocities /\ t.velocities = NoData
        THEN [nc |-> nc3, err |-> "NoDataError"]      \* ts._velocities
        ELSE IF w.has_forces /\ t.forces = NoData
        THEN [nc |-> nc4, err |-> "NoDataError"]      \* ts._forces
        ELSE [nc |-> nc5, err |-> "ok"]

\* mutant: the conversions are made in the arrays of the Timestep
InPlace_always(slot) == TRUE

\* _write_next_timestep: the inplace argument of the conversions of pos, time,
\* velocities and forces, "inplace=False"
InPlace(slot) == FALSE

\* _write_next_timestep: the Timestep of the caller after the call.  The values
\* stored are "data / sfactor", a new array; the box of the Timestep is given
\* to convert_dimensions_to_unitcell, which leaves the same numbers in it
\* whether or not it works in place, the length factor being 1
SourceAfterWrite(w, t) ==
    IF ~w.convert_units THEN t
    ELSE [t EXCEPT
            !.pos = IF InPlace("pos") THEN convert_pos_to_native(@) ELSE @,
            !.time = IF InPlace("time") THEN convert_time_to_native(@) ELSE @,
            !.dimensions = IF @ = NoData THEN @ ELSE convert_dimensions_to_unitcell(t),
            !.velocities = IF w.has_velocities /\ @ # NoData /\ InPlace("velocities")
                           THEN convert_velocities_to_native(@) ELSE @,
            !.forces = IF /\ w.has_forces /\ @ # NoData /\ InPlace("forces")
                          /\ ~(w.has_velocities /\ t.velocities = NoData)
                       THEN convert_forces_to_native(@) ELSE @]

\* the slots in which the Timestep after differs from the Timestep before
ChangedSlots(before, after) == {slot \in DOMAIN before : after[slot] # before[slot]}

\* mutant: the frame counter is not advanced
NextFrame_stuck(curr_frame) == curr_frame

\* _write_next_timestep: "self.curr_frame += 1"
NextFrame(curr_frame) == curr_frame + 1

\* mutant: the atom count of the timestep is not checked
AtomCountMismatch_never(w, t) == FALSE

\* _write_next_frame: "if ts.n_atoms != self.n_atoms: raise IOError"
AtomCountMismatch(w, t) == t.n_atoms # w.n_atoms

----------------------------------------------------------------------------
(* What the caller holds *)

\* nothing was handed to the caller yet
NoHeld == [of |-> "none", ref |-> "none", copy |-> NoData]

\* changed: the slots of the Timestep passed to the last write call that are
\* not as they were before the call; held: what the last read handed to the
\* caller; failed_at, warned: the block of NCDFReader.__init__ whose exception
\* the caller got (0: none) and the warnings emitted until then
NoCaller == [changed |-> {}, held |-> NoHeld, failed_at |-> 0, warned |-> {}]

\* no NCDFPicklable was made yet
NoFiles == <<>>

\* mutant: a read returns a copy of the reader's Timestep
HandOver_copy(of, buffer) == [of |-> of, ref |-> "copy", copy |-> buffer]

\* _read_frame, _read_next_timestep: "ts = self.ts ... return ts", the caller
\* is handed the reader's own Timestep object
HandOver(of, buffer) == [of |-> of, ref |-> "self.ts", copy |-> NoData]

PeriodicFlag(b) == IF b THEN "True" ELSE "False"

Construct(cfg) ==
    /\ wstatus = "absent"
    /\ call' = Called("NCDFWriter", cfg.n_atoms, 0, NoFrame)
    /\ result' = NCDFWriter_init_error(cfg.n_atoms, cfg.scale_factors)
    /\ IF result' = "ok"
       THEN /\ wstatus' = "constructed"
            /\ writer' = NewWriter(cfg.n_atoms, cfg.remarks, cfg.convert_units,
                                   cfg.velocities, cfg.forces, cfg.scale_factors)
       ELSE /\ wstatus' = "failed"
            /\ writer' = writer
    /\ UNCHANGED <<ncfile, disk, n_created, written, rvars, ovars>>

\* mutant: _init_netcdf forgets that the first frame has been seen
AfterInit_stillfirst(w, periodic) ==
    [w EXCEPT !.periodic = PeriodicFlag(periodic), !.trjfile = "open"]

\* _init_netcdf: the writer's attributes after the container was created
AfterInit(w, periodic) ==
    [w EXCEPT !.periodic = PeriodicFlag(periodic), !.first_frame = FALSE,
              !.trjfile = "open"]

\* _write_next_frame: the writer, the container (in the library and on the
\* file) and the outcome after writing timestep t
write_next_frame(w, nc, dk, t) ==
    IF AtomCountMismatch(w, t)
    THEN [writer |-> w, ncfile |-> nc, disk |-> dk, err |-> "IOError", created |-> 0]
    ELSE IF w.trjfile = "None" /\ ~InitAllowed(w)
    THEN [writer |-> w, ncfile |-> nc, disk |-> dk, err |-> "IOError", created |-> 0]
    ELSE LET init == w.trjfile = "None"
             w1 == IF init THEN AfterInit(w, is_periodic(t)) ELSE w
             nc0 == IF init THEN NewContainer(w, is_periodic(t)) ELSE nc
             dk0 == IF init THEN nc0 ELSE dk        \* ncfile.sync() of _init_netcdf
             out == write_next_timestep(w1, nc0, t)
         IN  IF out.err = "ok"
             THEN [writer |-> [w1 EXCEPT !.curr_frame = NextFrame(@)],
                   ncfile |-> out.nc,
                   disk |-> out.nc,                 \* self.trjfile.sync()
                   err |-> "ok", created |-> IF init THEN 1 ELSE 0]
             ELSE [writer |-> w1, ncfile |-> out.nc, disk |-> dk0,
                   err |-> out.err, created |-> IF init THEN 1 ELSE 0]

\* close: the writer afterwards
close_writer(w) == IF w.trjfile # "None" THEN [w EXCEPT !.trjfile = "None"] ELSE w

WriteFrame(t) ==
    /\ wstatus = "constructed"
    /\ writer.curr_frame < MaxFrames
    /\ call' = Called("write_frame", t.n_atoms, 0, t)
    /\ LET out == write_next_frame(writer, ncfile, disk, t)
       IN  /\ result' = out.err
           /\ writer' = out.writer
           /\ ncfile' = out.ncfile
           /\ disk' = out.disk
           /\ n_created' = n_created + out.created
           /\ written' = IF out.err = "ok" THEN Append(written, t) ELSE written
           /\ caller' = [caller EXCEPT !.changed =
                                 IF out.err = "IOError" THEN {}
                                 ELSE ChangedSlots(t, SourceAfterWrite(writer, t))]
    /\ UNCHANGED <<wstatus, rvars, dt, kwargs, avars, pvars>>

WriterClose ==
    /\ wstatus = "constructed"
    /\ call' = Called("NCDFWriter.close", 0, 0, NoFrame)
    /\ result' = "ok"
    /\ writer' = close_writer(writer)
    /\ disk' = IF writer.trjfile # "None" THEN ncfile ELSE disk   \* close flushes
    /\ UNCHANGED <<wstatus, ncfile, n_created, written, rvars, ovars>>

----------------------------------------------------------------------------
(* NCDFReader *)

NoReader ==
    [n_atoms |-> 0, n_frames |-> 0, remarks |-> "", scale_factors |-> NoScale,
     has_velocities |-> FALSE, has_forces |-> FALSE, periodic |-> FALSE,
     convert_units |-> FALSE, trjfile |-> "None", current_frame |-> 0,
     warnings |-> {}]

NoTimestep ==
    [frame |-> -1, pos |-> NoData, time |-> <<0, 1>>, velocities |-> NoData,
     forces |-> NoData, dimensions |-> NoData]

\* Timestep(n_atoms, velocities=..., forces=...)
NewTimestep(n_atoms, velocities, forces) ==
    [frame |-> -1, pos |-> Zeros(3 * n_atoms), time |-> <<0, 1>>,
     velocities |-> IF velocities THEN Zeros(3 * n_atoms) ELSE NoData,
     forces |-> IF forces THEN Zeros(3 * n_atoms) ELSE NoData,
     dimensions |-> NoData]

\* the tokens of a Conventions attribute: split(',') and split()
ConventionTokens(conv) ==
    CASE conv = "AMBER" -> {"AMBER"}
      [] conv = "CF-1.0,AMBER" -> {"CF-1.0", "AMBER"}
      [] conv = "CF-1.0 AMBER" -> {"CF-1.0", "AMBER"}
      [] OTHER -> {conv}

HasAttr(nc, a) == a \in DOMAIN nc.attrs
HasDim(nc, d) == d \in DOMAIN nc.dims
HasScaleAttr(nc, v) == v \in DOMAIN nc.scale /\ nc.scale[v] # None
\* mutant: every unit string is accepted
UnitsOk_any(nc, v, expected) == TRUE

\* _verify_units
UnitsOk(nc, v, expected) == nc.units[v] = expected

\* the variables of a container in the order in which the file lists them
VariableOrder ==
    <<"coordinates", "spatial", "time", "cell_lengths", "cell_spatial", "cell_angles",
      "cell_angular", "velocities", "forces", "temp0">>

\* mutant: a scale factor of an unknown variable is passed over
scale_factors_error_permissive(nc, order) ==
    IF \E v \in nc.vars \cap ScaleVars : HasScaleAttr(nc, v) /\ ~IsFloat(nc.scale[v])
    THEN "TypeError" ELSE "ok"

\* __init__: the loop over the variables that registers the scale factors
\* raises at the first variable whose scale_factor it does not accept
RECURSIVE scale_factors_error(_, _)
scale_factors_error(nc, order) ==
    IF order = <<>> THEN "ok"
    ELSE LET variable == Head(order)
         IN  IF variable \in nc.vars /\ HasScaleAttr(nc, variable)
             THEN IF variable \in ScaleVars
                  THEN IF ~IsFloat(nc.scale[variable]) THEN "TypeError"
                       ELSE scale_factors_error(nc, Tail(order))
                  ELSE "NotImplementedError"
             ELSE scale_factors_error(nc, Tail(order))

\* dimensions['frame'], or the length of the time variable for a record dimension
\* (a record dimension has length 0 in the header and reads as None)
FrameCount(nc) == IF nc.dims["frame"] = 0 THEN Len(nc.records) ELSE nc.dims["frame"]

\* __init__: the first check that fails, in the order of the code, or "ok"
NCDFReader_init_error(nc, n_arg) ==
    IF ~HasAttr(nc, "Conventions") THEN "ValueError"
    ELSE IF "AMBER" \notin ConventionTokens(nc.attrs["Conventions"]) THEN "TypeError"
    ELSE IF ~HasAttr(nc, "ConventionVersion") THEN "ValueError"
    ELSE IF nc.version_byte # 2 THEN "TypeError"
    ELSE IF ~HasDim(nc, "spatial") THEN "ValueError"
    ELSE IF nc.dims["spatial"] # 3 THEN "TypeError"
    ELSE IF ~HasDim(nc, "atom") THEN "ValueError"
    ELSE IF n_arg # NoData /\ n_arg[1] # nc.dims["atom"] THEN "ValueError"
    ELSE IF ~HasDim(nc, "frame") THEN "ValueError"
    ELSE IF ~UnitsOk(nc, "time", "picosecond") THEN "NotImplementedError"
    ELSE IF ~UnitsOk(nc, "coordinates", "angstrom") THEN "NotImplementedError"
    ELSE IF scale_factors_error(nc, VariableOrder) # "ok"
         THEN scale_factors_error(nc, VariableOrder)
    ELSE IF "velocities" \in nc.vars /\ ~UnitsOk(nc, "velocities", "angstrom/picosecond")
         THEN "NotImplementedError"
    ELSE IF "forces" \in nc.vars /\ ~UnitsOk(nc, "forces", "kilocalorie/mole/angstrom")
         THEN "NotImplementedError"
    ELSE IF "cell_lengths" \in nc.vars /\ ~UnitsOk(nc, "cell_lengths", "angstrom")
         THEN "NotImplementedError"
    ELSE IF "cell_lengths" \in nc.vars /\ ~UnitsOk(nc, "cell_angles", "degree")
         THEN "NotImplementedError"
    ELSE IF FrameCount(nc) <= 0 THEN "IndexError"     \* self._read_frame(0)
    ELSE "ok"

\* mutant: the atom dimension is looked at before the version byte
NCDFReader_init_step_atomfirst(nc, n_arg) ==
    IF ~HasAttr(nc, "Conventions") THEN 1
    ELSE IF "AMBER" \notin ConventionTokens(nc.attrs["Conventions"]) THEN 1
    ELSE IF ~HasAttr(nc, "ConventionVersion") THEN 2
    ELSE IF ~HasDim(nc, "atom") THEN 6
    ELSE IF n_arg # NoData /\ n_arg[1] # nc.dims["atom"] THEN 6
    ELSE IF nc.version_byte # 2 THEN 3
    ELSE IF ~HasDim(nc, "spatial") THEN 4
    ELSE IF nc.dims["spatial"] # 3 THEN 4
    ELSE IF ~HasDim(nc, "frame") THEN 7
    ELSE IF ~UnitsOk(nc, "time", "picosecond") THEN 9
    ELSE IF ~UnitsOk(nc, "coordinates", "angstrom") THEN 9
    ELSE IF scale_factors_error(nc, VariableOrder) # "ok" THEN 10
    ELSE IF "velocities" \in nc.vars /\ ~UnitsOk(nc, "velocities", "angstrom/picosecond")
         THEN 11
    ELSE IF "forces" \in nc.vars /\ ~UnitsOk(nc, "forces", "kilocalorie/mole/angstrom")
         THEN 11
    ELSE IF "cell_lengths" \in nc.vars /\ ~UnitsOk(nc, "cell_lengths", "angstrom") THEN 12
    ELSE IF "cell_lengths" \in nc.vars /\ ~UnitsOk(nc, "cell_angles", "degree") THEN 12
    ELSE IF FrameCount(nc) <= 0 THEN 13
    ELSE 0

\* __init__: the block of the constructor that raises, numbered as the blocks
\* follow each other in the code (5 and 8 raise nothing; 13 is the load of the
\* first frame), or 0 when the constructor returns
NCDFReader_init_step(nc, n_arg) ==
    IF ~HasAttr(nc, "Conventions") THEN 1
    ELSE IF "AMBER" \notin ConventionTokens(nc.attrs["Conventions"]) THEN 1
    ELSE IF ~HasAttr(nc, "ConventionVersion") THEN 2
    ELSE IF nc.version_byte # 2 THEN 3
    ELSE IF ~HasDim(nc, "spatial") THEN 4
    ELSE IF nc.dims["spatial"] # 3 THEN 4
    ELSE IF ~HasDim(nc, "atom") THEN 6
    ELSE IF n_arg # NoData /\ n_arg[1] # nc.dims["atom"] THEN 6
    ELSE IF ~HasDim(nc, "frame") THEN 7
    ELSE IF ~UnitsOk(nc, "time", "picosecond") THEN 9
    ELSE IF ~UnitsOk(nc, "coordinates", "angstrom") THEN 9
    ELSE IF scale_factors_error(nc, VariableOrder) # "ok" THEN 10
    ELSE IF "velocities" \in nc.vars /\ ~UnitsOk(nc, "velocities", "angstrom/picosecond")
         THEN 11
    ELSE IF "forces" \in nc.vars /\ ~UnitsOk(nc, "forces", "kilocalorie/mole/angstrom")
         THEN 11
    ELSE IF "cell_lengths" \in nc.vars /\ ~UnitsOk(nc, "cell_lengths", "angstrom") THEN 12
    ELSE IF "cell_lengths" \in nc.vars /\ ~UnitsOk(nc, "cell_angles", "degree") THEN 12
    ELSE IF FrameCount(nc) <= 0 THEN 13
    ELSE 0

\* __init__: the warnings emitted by a constructor that raises in block step
NCDFReader_warnings_before(nc, step) ==
    (IF step > 2 /\ nc.attrs["ConventionVersion"] # "1.0" THEN {"ConventionVersion"}
     ELSE {})
      \cup (IF step > 5 /\ ~(HasAttr(nc, "program") /\ HasAttr(nc, "programVersion"))
            THEN {"program"} ELSE {})

NCDFReader_warnings(nc) ==
    (IF nc.attrs["ConventionVersion"] # "1.0" THEN {"ConventionVersion"} ELSE {})
      \cup (IF ~(HasAttr(nc, "program") /\ HasAttr(nc, "programVersion"))
            THEN {"program"} ELSE {})

\* __init__: the attributes read from the container
NewReader(nc, convert_units) ==
    [n_atoms |-> nc.dims["atom"],
     n_frames |-> FrameCount(nc),
     remarks |-> IF HasAttr(nc, "title") THEN nc.attrs["title"] ELSE "",
     scale_factors |-> [v \in ScaleVars |->
                          IF v \in nc.vars /\ HasScaleAttr(nc, v) THEN nc.scale[v]
                          ELSE None],
     has_velocities |-> "velocities" \in nc.vars,
     has_forces |-> "forces" \in nc.vars,
     periodic |-> "cell_lengths" \in nc.vars,
     convert_units |-> convert_units,
     trjfile |-> "open",
     current_frame |-> 0,
     warnings |-> NCDFReader_warnings(nc)]

\* mutant: the stored data is returned without multiplying by the scale factor
ScaledFromRead_raw(scale_factor, raw) == raw

\* _get_var_and_scale: the value returned for the stored raw data
ScaledFromRead(scale_factor, raw) ==
    IF scale_factor = None \/ isclose1(scale_factor.v) THEN raw
    ELSE MulArr(raw, scale_factor.v)

get_var_and_scale(r, nc, variable, frame) ==
    ScaledFromRead(r.scale_factors[variable], nc.records[frame + 1][variable])

\* _read_frame: "if frame >= self.n_frames or frame < 0: raise IndexError"
FrameOutOfRange(r, frame) == frame >= r.n_frames \/ frame < 0

\* _read_frame: the Timestep after a successful read of frame
read_frame_ts(r, nc, t, frame) ==
    LET pos == get_var_and_scale(r, nc, "coordinates", frame)
        time == get_var_and_scale(r, nc, "time", frame)[1]
        vel == get_var_and_scale(r, nc, "velocities", frame)
        frc == get_var_and_scale(r, nc, "forces", frame)
        unitcell == get_var_and_scale(r, nc, "cell_lengths", frame)
                      \o get_var_and_scale(r, nc, "cell_angles", frame)
    IN  [frame |-> frame,
         pos |-> IF r.convert_units THEN convert_pos_from_native(pos) ELSE pos,
         \* convert_time_from_native(ts.time) acts on a copy of the scalar
         time |-> time,
         velocities |-> IF ~r.has_velocities THEN t.velocities
                        ELSE IF r.convert_units THEN convert_velocities_from_native(vel)
                        ELSE vel,
         forces |-> IF ~r.has_forces THEN t.forces
                    ELSE IF r.convert_units THEN convert_forces_from_native(frc)
                    ELSE frc,
         dimensions |-> IF ~r.periodic THEN t.dimensions
                        ELSE IF r.convert_units
                        THEN convert_pos_from_native(SubSeq(unitcell, 1, 3))
                               \o SubSeq(unitcell, 4, 6)
                        ELSE unitcell]

\* mutant: a frame index out of range raises the wrong exception
read_frame_error_wrongtype(r, frame) ==
    IF r.trjfile = "None" THEN "IOError"
    ELSE IF FrameOutOfRange(r, frame) THEN "ValueError"
    ELSE "ok"

\* mutant: the index is checked before the closed file is noticed
read_frame_error_indexfirst(r, frame) ==
    IF FrameOutOfRange(r, frame) THEN "IndexError"
    ELSE IF r.trjfile = "None" THEN "IOError"
    ELSE "ok"

\* _read_frame: the exception raised, or "ok"
read_frame_error(r, frame) ==
    IF r.trjfile = "None" THEN "IOError"
    ELSE IF FrameOutOfRange(r, frame) THEN "IndexError"
    ELSE "ok"

\* mutant: the cursor is not advanced before the read
NextIndex_same(r) == r.current_frame

\* _read_next_timestep: the frame asked of _read_frame
NextIndex(r) == r.current_frame + 1

\* _read_next_timestep: "except IndexError: raise IOError"
read_next_error(r) ==
    LET e == read_frame_error(r, NextIndex(r))
    IN  IF e = "IndexError" THEN "IOError" ELSE e

\* _reopen: "self._current_frame = -1"
ReopenFrame == -1

ReaderOpen(n_arg, convert_units) ==
    /\ rstatus = "absent"
    /\ disk.exists
    /\ writer.trjfile = "None"
    /\ call' = Called("NCDFReader", IF n_arg = NoData THEN -1 ELSE n_arg[1], 0, NoFrame)
    /\ result' = NCDFReader_init_error(disk, n_arg)
    /\ IF result' = "ok"
       THEN /\ rstatus' = "constructed"
            /\ reader' = NewReader(disk, convert_units)
            /\ ts' = read_frame_ts(reader', disk,
                                   NewTimestep(reader'.n_atoms, reader'.has_velocities,
                                               reader'.has_forces), 0)
            /\ caller' = [caller EXCEPT !.failed_at = 0, !.warned = reader'.warnings]
       ELSE /\ rstatus' = "failed"
            /\ caller' = LET step == NCDFReader_init_step(disk, n_arg)
                         IN  [caller EXCEPT !.failed_at = step,
                                            !.warned = NCDFReader_warnings_before(disk, step)]
            /\ UNCHANGED <<reader, ts>>
    /\ UNCHANGED <<wvars, dt, kwargs, avars, pvars>>

ReadFrame(k) ==
    /\ rstatus = "constructed"
    /\ call' = Called("read_frame", 0, k, NoFrame)
    /\ result' = read_frame_error(reader, k)
    /\ IF result' = "ok"
       THEN /\ ts' = read_frame_ts(reader, disk, ts, k)
            /\ reader' = [reader EXCEPT !.current_frame = k]
            /\ caller' = [caller EXCEPT !.held = HandOver("NCDFReader", ts')]
       ELSE UNCHANGED <<reader, ts, caller>>
    /\ UNCHANGED <<rstatus, wvars, dt, kwargs, avars, pvars>>

ReadNext ==
    /\ rstatus = "constructed"
    /\ call' = Called("read_next", 0, NextIndex(reader), NoFrame)
    /\ result' = read_next_error(reader)
    /\ IF result' = "ok"
       THEN /\ ts' = read_frame_ts(reader, disk, ts, NextIndex(reader))
            /\ reader' = [reader EXCEPT !.current_frame = NextIndex(reader)]
            /\ caller' = [caller EXCEPT !.held = HandOver("NCDFReader", ts')]
       ELSE UNCHANGED <<reader, ts, caller>>
    /\ UNCHANGED <<rstatus, wvars, dt, kwargs, avars, pvars>>

Reopen ==
    /\ rstatus = "constructed"
    /\ call' = Called("reopen", 0, 0, NoFrame)
    /\ result' = "ok"
    /\ reader' = [reader EXCEPT !.current_frame = ReopenFrame]
    /\ UNCHANGED <<rstatus, ts, wvars, ovars>>

ReaderClose ==
    /\ rstatus = "constructed"
    /\ call' = Called("NCDFReader.close", 0, 0, NoFrame)
    /\ result' = "ok"
    /\ reader' = [reader EXCEPT !.trjfile = "None"]
    /\ UNCHANGED <<rstatus, ts, wvars, ovars>>

\* mutant: the IndexError of a missing second frame is not caught
get_dt_error_uncaught(r, nc) ==
    IF r.trjfile = "None" THEN "AttributeError"
    ELSE IF Len(nc.records) < 2 THEN "IndexError"
    ELSE "ok"

\* _get_dt: the exception raised, or "ok"
get_dt_error(r, nc) ==
    IF r.trjfile = "None" THEN "AttributeError"          \* None has no variables
    ELSE IF Len(nc.records) < 2 THEN "AttributeError"    \* except IndexError
    ELSE "ok"

\* _get_dt: "return t1 - t0", the stored times of the second and first frame
get_dt(nc) == RSub(nc.records[2]["time"][1], nc.records[1]["time"][1])

GetDt ==
    /\ rstatus = "constructed"
    /\ call' = Called("get_dt", 0, 0, NoFrame)
    /\ result' = get_dt_error(reader, disk)
    /\ dt' = IF result' = "ok" THEN get_dt(disk) ELSE dt
    /\ UNCHANGED <<rvars, wvars, kwargs, avars, pvars, caller>>

\* the keyword arguments of NCDFReader.Writer: "set" and "scale_set" name the
\* ones that the caller passes
NoKwargs ==
    [set |-> {}, scale_set |-> {}, n_atoms |-> 0, remarks |-> "",
     convert_units |-> FALSE, velocities |-> FALSE, forces |-> FALSE,
     scale_factors |-> NoScale]

WriterKwargs ==
    {NoKwargs,
     [NoKwargs EXCEPT !.set = {"n_atoms"}, !.n_atoms = NAtoms + 1],
     [NoKwargs EXCEPT !.set = {"n_atoms"}, !.n_atoms = 0],
     [NoKwargs EXCEPT !.set = {"remarks"}, !.remarks = "mine"],
     [NoKwargs EXCEPT !.set = {"remarks"}, !.remarks = NoRemarks],
     [NoKwargs EXCEPT !.set = {"convert_units"}, !.convert_units = FALSE],
     [NoKwargs EXCEPT !.set = {"velocities"}, !.velocities = FALSE],
     [NoKwargs EXCEPT !.set = {"forces"}, !.forces = TRUE],
     [NoKwargs EXCEPT !.scale_set = {"time"}],
     [NoKwargs EXCEPT !.scale_set = {"forces"},
                      !.scale_factors = Only("forces", FloatVal(1, 2))],
     [NoKwargs EXCEPT !.scale_set = {"coordinates"},
                      !.scale_factors = Only("coordinates", IntVal(2))],
     [NoKwargs EXCEPT !.set = {"n_atoms", "velocities"}, !.n_atoms = 1,
                      !.velocities = TRUE, !.scale_set = {"cell_angles"},
                      !.scale_factors = Only("cell_angles", FloatVal(2, 1))]}

\* mutant: the reader's scale factors are not handed on
WriterArgs_noscale(r, kw) ==
    [n_atoms |-> IF "n_atoms" \in kw.set THEN kw.n_atoms ELSE r.n_atoms,
     remarks |-> IF "remarks" \in kw.set THEN kw.remarks ELSE r.remarks,
     convert_units |-> IF "convert_units" \in kw.set THEN kw.convert_units
                       ELSE r.convert_units,
     velocities |-> IF "velocities" \in kw.set THEN kw.velocities ELSE r.has_velocities,
     forces |-> IF "forces" \in kw.set THEN kw.forces ELSE r.has_forces,
     scale_factors |-> [v \in ScaleVars |->
                          IF v \in kw.scale_set THEN kw.scale_factors[v] ELSE None]]

\* Writer: kwargs.pop('n_atoms', ...) and kwargs.setdefault(...)
WriterArgs(r, kw) ==
    [n_atoms |-> IF "n_atoms" \in kw.set THEN kw.n_atoms ELSE r.n_atoms,
     remarks |-> IF "remarks" \in kw.set THEN kw.remarks ELSE r.remarks,
     convert_units |-> IF "convert_units" \in kw.set THEN kw.convert_units
                       ELSE r.convert_units,
     velocities |-> IF "velocities" \in kw.set THEN kw.velocities ELSE r.has_velocities,
     forces |-> IF "forces" \in kw.set THEN kw.forces ELSE r.has_forces,
     scale_factors |-> [v \in ScaleVars |->
                          IF v \in kw.scale_set THEN kw.scale_factors[v]
                          ELSE r.scale_factors[v]]]

\* Writer: "return NCDFWriter(filename, n_atoms, **kwargs)"
ReaderWriter(kw) ==
    /\ rstatus = "constructed"
    /\ wstatus = "absent"
    /\ kwargs' = kw
    /\ LET cfg == WriterArgs(reader, kw)
       IN  /\ call' = Called("NCDFReader.Writer", cfg.n_atoms, 0, NoFrame)
           /\ result' = NCDFWriter_init_error(cfg.n_atoms, cfg.scale_factors)
           /\ IF result' = "ok"
              THEN /\ wstatus' = "constructed"
                   /\ writer' = NewWriter(cfg.n_atoms, cfg.remarks, cfg.convert_units,
                                          cfg.velocities, cfg.forces, cfg.scale_factors)
              ELSE /\ wstatus' = "failed"
                   /\ writer' = writer
    /\ UNCHANGED <<ncfile, disk, n_created, written, rvars, dt, avars, pvars, caller>>

----------------------------------------------------------------------------
(* The ASCII trajectory file and util.FORTRANReader.  A line of the file is  *)
(* the sequence of the numbers in its 8-character columns.                   *)

Min(a, b) == IF a <= b THEN a ELSE b

\* FORTRANReader("10F8.3") and FORTRANReader("3F8.3")
FieldsPerLine == 10
BoxFields == 3

\* FORTRANReader(<k>F8.3).read(line) raises ValueError when one of its k
\* columns holds no number
ParserFails(k, line) == Len(line) < k
ParserRead(k, line) == SubSeq(line, 1, k)
\* FORTRANReader("10F8.3").number_of_matches(line)
number_of_matches(line) == Min(Len(line), FieldsPerLine)

\* the values of frame f (0-based) of the sample files
FrameCoords(n, f) == [j \in 1 .. 3 * n |-> 100 * (f + 1) + j]
FrameBox(f) == <<1000 * (f + 1) + 1, 1000 * (f + 1) + 2, 1000 * (f + 1) + 3>>
RightAngles == <<90, 90, 90>>

lines_per_frame(n) == (3 * n + FieldsPerLine - 1) \div FieldsPerLine
last_per_line(n) == (3 * n) % FieldsPerLine

\* the lines of one frame: the coordinates, 10 to a line, then the box
FrameLines(n, f, periodic) ==
    [i \in 1 .. lines_per_frame(n) |->
        SubSeq(FrameCoords(n, f), FieldsPerLine * (i - 1) + 1,
               Min(FieldsPerLine * i, 3 * n))]
      \o (IF periodic THEN <<FrameBox(f)>> ELSE <<>>)

RECURSIVE AllLines(_, _, _, _)
AllLines(n, f, nf, periodic) ==
    IF f >= nf THEN <<>>
    ELSE FrameLines(n, f, periodic) \o AllLines(n, f + 1, nf, periodic)

\* the first line of the file: text characters up to the last one that is
\* not whitespace, then trailing whitespace characters (the newline is one)
Title(text, trailing) == [text |-> text, trailing |-> trailing]

\* open_trajectory: "if len(self.header.rstrip()) > 80"
HeaderLimit == 80

Titles ==
    {Title(20, 1), Title(HeaderLimit, 1), Title(HeaderLimit, 3), Title(HeaderLimit + 1, 1)}

\* a file of nf frames of n atoms, its last cut lines missing; gone: the file
\* cannot be opened
AsciiFile(n, nf, periodic, cut, long_header) ==
    LET all == AllLines(n, 0, nf, periodic)
    IN  [n_atoms |-> n, frames |-> nf, periodic |-> periodic, cut |-> cut,
         long_header |-> long_header,
         header |-> IF long_header THEN Title(HeaderLimit + 1, 1) ELSE Title(20, 1),
         gone |-> FALSE,
         lines |-> SubSeq(all, 1, Len(all) - cut)]

NoAsciiFile == AsciiFile(1, 0, FALSE, 0, FALSE)

TrjAtomCounts == {1, NAtoms, NAtoms + 2}
TrjFrameCounts == 1 .. (MaxFrames + 1)
Cuts == {0, 1, 2}

AsciiFiles ==
    {AsciiFile(n, nf, periodic, cut, FALSE) :
        n \in TrjAtomCounts, nf \in TrjFrameCounts, periodic \in BOOLEAN, cut \in Cuts}
      \cup {AsciiFile(NAtoms, 1, periodic, 0, TRUE) : periodic \in BOOLEAN}

----------------------------------------------------------------------------
(* TRJReader *)

Closed == -1     \* trjfile is None
NotCached == -1  \* _n_frames is None

\* trjfile: the index of the next line of the open file (0 is the line after
\* the header); frame, pos, dimensions: the Timestep; run: how many read_next
\* calls succeeded in a row since the last reopen (-1: something else came
\* between); opens: how often the file was opened for reading frames (up to 2);
\* scans: how often _read_trj_n_frames went through the file (up to 2);
\* returned: what the last n_frames returned; wasclosed: the reader was closed
\* when the last operation on it began
NoTrj ==
    [status |-> "absent", n_atoms |-> 0, periodic |-> "None", trjfile |-> Closed,
     frame |-> -1, pos |-> <<>>, dimensions |-> <<>>, n_frames |-> NotCached,
     has_offsets |-> FALSE, offsets |-> <<>>, warnings |-> 0, run |-> -1,
     opens |-> 0, scans |-> 0, returned |-> NotCached,
     wasclosed |-> FALSE, probes |-> 0]

\* __init__ up to the box detection
NewTrj(n_atoms) ==
    [NoTrj EXCEPT !.status = "constructed", !.n_atoms = n_atoms,
                  !.pos = [j \in 1 .. 3 * n_atoms |-> 0]]

Outcome(r, err) == [r |-> r, err |-> err]

\* self.ts: the frame index, the coordinates and the box of the reader
Timestep(r) == [frame |-> r.frame, pos |-> r.pos, dimensions |-> r.dimensions]

\* mutant: close forgets whether the file has boxes
trj_close_forget(r) == [r EXCEPT !.trjfile = Closed, !.periodic = "None"]

\* mutant: close sets the frame index back as well
trj_close_rewind(r) == [r EXCEPT !.trjfile = Closed, !.frame = -1]

\* close
trj_close(r) == [r EXCEPT !.trjfile = Closed]

\* mutant: the title is measured with its trailing whitespace
HeaderLength_raw(header) == header.text + header.trailing

\* open_trajectory: "len(self.header.rstrip())"
HeaderLength(header) == header.text

\* mutant: an open leaves the frame index alone
FrameAfterOpen_kept(r) == r.frame

\* open_trajectory: "ts.frame = -1"
FrameAfterOpen(r) == -1

\* open_trajectory
open_trajectory(r, f) ==
    LET opened == [r EXCEPT !.trjfile = 0, !.opens = Min(@ + 1, 2)]
    IN  IF f.gone THEN Outcome(r, "IOError")                    \* util.anyopen
        ELSE IF HeaderLength(f.header) > HeaderLimit THEN Outcome(opened, "OSError")
        ELSE Outcome([opened EXCEPT !.frame = FrameAfterOpen(r)], "ok")

\* _reopen
trj_reopen(r, f) == open_trajectory(trj_close(r), f)

\* _read_next_timestep: the loop over the lines of the frame; p is the next
\* line, number the loop counter
RECURSIVE read_coords(_, _, _, _, _)
read_coords(n, lines, p, number, coords) ==
    IF p >= Len(lines) THEN [p |-> p, coords |-> coords, err |-> "ok"]
    ELSE LET line == lines[p + 1]
         IN  IF ParserFails(FieldsPerLine, line) /\ ParserFails(last_per_line(n), line)
             THEN [p |-> p + 1, coords |-> coords, err |-> "ValueError"]
             ELSE LET got == IF ~ParserFails(FieldsPerLine, line)
                             THEN ParserRead(FieldsPerLine, line)
                             ELSE ParserRead(last_per_line(n), line)
                  IN  IF number = lines_per_frame(n) - 1
                      THEN [p |-> p + 1, coords |-> coords \o got, err |-> "ok"]
                      ELSE read_coords(n, lines, p + 1, number + 1, coords \o got)

\* mutant: a frame that is cut short counts as the end of the stream
EndOfStream_short(r, coords) == Len(coords) < 3 * r.n_atoms

\* _read_next_timestep: "if _coords == []: raise EOFError"
EndOfStream(r, coords) == coords = <<>>

\* _read_next_timestep: after the lines of the coordinates were read with
\* outcome c, which left the reader as r1
read_after_coords(r1, c, f) ==
    IF c.err # "ok" THEN Outcome(r1, c.err)
    ELSE IF EndOfStream(r1, c.coords) THEN Outcome(r1, "EOFError")
    ELSE
    LET nobox == r1.periodic = "True" /\ r1.trjfile >= Len(f.lines)
        badbox == /\ r1.periodic = "True" /\ ~nobox
                  /\ ParserFails(BoxFields, f.lines[r1.trjfile + 1])
        r2 == IF r1.periodic = "True" /\ ~nobox
              THEN [r1 EXCEPT !.trjfile = @ + 1,
                              !.dimensions =
                                  IF badbox THEN @
                                  ELSE ParserRead(BoxFields, f.lines[r1.trjfile + 1])
                                         \o RightAngles]
              ELSE r1
    IN  IF nobox THEN Outcome(r1, "StopIteration")      \* next(self.trjfile)
        ELSE IF badbox THEN Outcome(r2, "ValueError")
        ELSE IF Len(c.coords) # 3 * r1.n_atoms
        THEN Outcome(r2, "ValueError")                  \* reshape
        ELSE Outcome([r2 EXCEPT !.pos = c.coords, !.frame = @ + 1], "ok")

\* _read_next_timestep: after "if self.trjfile is None: self.open_trajectory()"
\* ended with outcome o
read_after_open(o, f) ==
    IF o.err # "ok" THEN o
    ELSE LET c == read_coords(o.r.n_atoms, f.lines, o.r.trjfile, 0, <<>>)
         IN  read_after_coords([o.r EXCEPT !.trjfile = c.p], c, f)

\* _read_next_timestep
read_next_timestep(r, f) ==
    read_after_open(IF r.trjfile = Closed THEN open_trajectory(r, f) ELSE Outcome(r, "ok"),
                    f)

\* mutant: a trajectory of one atom is probed for a box like any other
SingleAtom_never(r) == FALSE

\* _detect_amber_box: "if self.n_atoms == 1"
SingleAtom(r) == r.n_atoms = 1

\* _detect_amber_box: after the first frame was read with outcome n
detect_after_read(n, f) ==
    IF n.err # "ok" THEN n
    ELSE IF n.r.trjfile >= Len(f.lines)
    THEN Outcome(n.r, "StopIteration")                  \* next(self.trjfile)
    ELSE
    LET line == f.lines[n.r.trjfile + 1]
        nentries == number_of_matches(line)
    IN  Outcome(trj_close(
            IF nentries = BoxFields
            THEN [n.r EXCEPT !.trjfile = @ + 1, !.periodic = "True",
                             !.dimensions = ParserRead(BoxFields, line)
                                              \o RightAngles]
            ELSE [n.r EXCEPT !.trjfile = @ + 1, !.periodic = "False"]), "ok")

\* _detect_amber_box
detect_amber_box(r, f) ==
    IF SingleAtom(r)
    THEN Outcome([r EXCEPT !.periodic = "False", !.warnings = @ + 1,
                           !.probes = @ + 1], "ok")
    ELSE
    LET o == trj_reopen([r EXCEPT !.probes = @ + 1], f)
    IN  IF o.err # "ok" THEN o
        ELSE detect_after_read(read_next_timestep([o.r EXCEPT !.periodic = "False"], f), f)

\* __init__
TRJReader_init(n_arg, f) ==
    IF n_arg = NoData THEN Outcome(NoTrj, "ValueError")
    ELSE LET d == detect_amber_box(NewTrj(n_arg[1]), f)
         IN  IF d.err # "ok" THEN d ELSE read_next_timestep(d.r, f)

\* mutant: the box line is not counted in the lines of a frame
ScanLines_nobox(r) == lines_per_frame(r.n_atoms)

\* _read_trj_n_frames: "lpf = self.lines_per_frame; if self.periodic: lpf += 1"
ScanLines(r) == lines_per_frame(r.n_atoms) + (IF r.periodic = "True" THEN 1 ELSE 0)

\* _read_trj_n_frames: the loop; counter lines after the header have been read
RECURSIVE scan_offsets(_, _, _, _)
scan_offsets(nlines, lpf, counter, offsets) ==
    IF counter > nlines THEN offsets
    ELSE scan_offsets(nlines, lpf, counter + 1,
                      IF counter % lpf = 0 THEN Append(offsets, counter) ELSE offsets)

\* _read_trj_n_frames: the offsets after "offsets.pop()"
read_trj_n_frames(r, f) ==
    LET all == scan_offsets(Len(f.lines), ScanLines(r), 0, <<>>)
    IN  SubSeq(all, 1, Len(all) - 1)

\* mutant: the scan reads through the reader's own stream and leaves it at the
\* end of the file
StreamAfterScan_shared(r, f) == Len(f.lines)

\* _read_trj_n_frames: "with util.openany(self.filename) as f", the scan reads
\* through a file object of its own, and self.trjfile stays where it was
StreamAfterScan(r, f) == r.trjfile

\* mutant: the frame count is never taken from the cache
Cached_never(r) == FALSE

\* n_frames: "if self._n_frames is not None"
Cached(r) == r.n_frames # NotCached

\* n_frames; when the file cannot be opened _read_trj_n_frames has assigned
\* "self._offsets = []" before util.openany raises the IOError
trj_n_frames(r, f) ==
    IF Cached(r) THEN [r EXCEPT !.returned = r.n_frames]
    ELSE IF f.gone
    THEN [r EXCEPT !.offsets = <<>>, !.has_offsets = TRUE, !.returned = 0]
    ELSE LET offsets == read_trj_n_frames(r, f)
         IN  [r EXCEPT !.n_frames = Len(offsets), !.offsets = offsets,
                       !.has_offsets = TRUE, !.scans = Min(@ + 1, 2),
                       !.returned = Len(offsets),
                       !.trjfile = StreamAfterScan(r, f)]

\* mutant: the frame index is not set back before the sequential read
SeekFrame_same(r, frame) == r.frame

\* _read_frame: "self.ts.frame = frame - 1"
SeekFrame(r, frame) == frame - 1

\* _read_frame
trj_read_frame(r, f, frame) ==
    LET o == IF r.trjfile = Closed THEN open_trajectory(r, f) ELSE Outcome(r, "ok")
        size == Len(o.r.offsets)
    IN  IF o.err # "ok" THEN o
        ELSE IF ~o.r.has_offsets THEN Outcome(o.r, "AttributeError")   \* self._offsets
        ELSE IF frame >= size \/ frame < -size THEN Outcome(o.r, "IndexError")
        ELSE read_next_timestep(
                 [o.r EXCEPT !.trjfile = o.r.offsets[(IF frame < 0 THEN frame + size
                                                      ELSE frame) + 1],
                             !.frame = SeekFrame(o.r, frame)], f)

TrjOpen(n_arg) ==
    /\ trj.status = "absent"
    /\ call' = Called("TRJReader", IF n_arg = NoData THEN -1 ELSE n_arg[1], 0, NoFrame)
    /\ LET out == TRJReader_init(n_arg, afile)
       IN  /\ result' = out.err
           /\ trj' = IF out.err = "ok" THEN out.r ELSE [NoTrj EXCEPT !.status = "failed"]
    /\ UNCHANGED <<wvars, rvars, dt, kwargs, pvars, caller, afile>>

\* the frame index beyond which no further read_next is followed: no file has
\* more frames, but after an open that failed with OSError the index is not
\* set back and each read adds to it
MaxTrjFrame == 2 * (MaxFrames + 1)

TrjReadNext ==
    /\ trj.status = "constructed" /\ trj.frame <= MaxTrjFrame
    /\ call' = Called("TRJReader.read_next", 0, 0, NoFrame)
    /\ LET out == read_next_timestep(trj, afile)
       IN  /\ result' = out.err
           /\ trj' = [out.r EXCEPT !.run = IF out.err = "ok" /\ trj.run >= 0
                                           THEN trj.run + 1 ELSE -1,
                                    !.wasclosed = (trj.trjfile = Closed)]
           /\ caller' = IF out.err = "ok"
                        THEN [caller EXCEPT !.held = HandOver("TRJReader", Timestep(out.r))]
                        ELSE caller
    /\ UNCHANGED <<wvars, rvars, dt, kwargs, pvars, afile>>

TrjReadFrame(k) ==
    /\ trj.status = "constructed"
    /\ call' = Called("TRJReader.read_frame", 0, k, NoFrame)
    /\ LET out == trj_read_frame(trj, afile, k)
       IN  /\ result' = out.err
           /\ trj' = [out.r EXCEPT !.run = -1, !.wasclosed = (trj.trjfile = Closed)]
           /\ caller' = IF out.err = "ok"
                        THEN [caller EXCEPT !.held = HandOver("TRJReader", Timestep(out.r))]
                        ELSE caller
    /\ UNCHANGED <<wvars, rvars, dt, kwargs, pvars, afile>>

TrjNFrames ==
    /\ trj.status = "constructed"
    /\ call' = Called("TRJReader.n_frames", 0, 0, NoFrame)
    /\ result' = "ok"
    /\ trj' = [trj_n_frames(trj, afile) EXCEPT !.wasclosed = (trj.trjfile = Closed)]
    /\ UNCHANGED <<wvars, rvars, dt, kwargs, pvars, caller, afile>>

TrjReopen ==
    /\ trj.status = "constructed"
    /\ call' = Called("TRJReader.reopen", 0, 0, NoFrame)
    /\ LET out == trj_reopen(trj, afile)
       IN  /\ result' = out.err
           /\ trj' = [out.r EXCEPT !.run = IF out.err = "ok" THEN 0 ELSE -1,
                                    !.wasclosed = (trj.trjfile = Closed)]
    /\ UNCHANGED <<wvars, rvars, dt, kwargs, pvars, caller, afile>>

TrjClose ==
    /\ trj.status = "constructed"
    /\ call' = Called("TRJReader.close", 0, 0, NoFrame)
    /\ result' = "ok"
    /\ trj' = [trj_close(trj) EXCEPT !.run = -1, !.wasclosed = (trj.trjfile = Closed)]
    /\ UNCHANGED <<wvars, rvars, dt, kwargs, pvars, caller, afile>>

InitT ==
    /\ afile \in AsciiFiles
    /\ trj = NoTrj
    /\ files = NoFiles
    /\ handles = <<>>
    /\ pickle = NoData
    /\ caller = NoCaller
    /\ wstatus = "absent"
    /\ writer = NoWriter
    /\ ncfile = NoFile
    /\ disk = NoFile
    /\ n_created = 0
    /\ written = <<>>
    /\ rstatus = "absent"
    /\ reader = NoReader
    /\ ts = NoTimestep
    /\ call = Called("none", 0, 0, NoFrame)
    /\ result = "ok"
    /\ dt = NoData
    /\ kwargs = NoKwargs

\* the caller passes the atom count of the file, or none
NextT ==
    \/ \E n_arg \in {NoData, <<afile.n_atoms>>} : TrjOpen(n_arg)
    \/ TrjReadNext
    \/ \E k \in FrameIndices : TrjReadFrame(k)
    \/ TrjNFrames
    \/ TrjReopen
    \/ TrjClose

SpecT == InitT /\ [][NextT]_vars

\* the file is removed, or made unreadable, by someone else; a file that is
\* open stays readable
\* the file is replaced by one with another title and the same frames
TrjRetitle(header) ==
    /\ ~afile.gone /\ header # afile.header
    /\ afile' = [afile EXCEPT !.header = header, !.long_header = header.text > HeaderLimit]
    /\ call' = Called("retitle", 0, 0, NoFrame)
    /\ result' = "ok"
    /\ UNCHANGED <<wvars, rvars, dt, kwargs, pvars, caller, trj>>

TrjUnlink ==
    /\ ~afile.gone
    /\ afile' = [afile EXCEPT !.gone = TRUE]
    /\ call' = Called("unlink", 0, 0, NoFrame)
    /\ result' = "ok"
    /\ UNCHANGED <<wvars, rvars, dt, kwargs, pvars, caller, trj>>

NextG ==
    \/ NextT
    \/ \E header \in Titles : TrjRetitle(header)
    \/ TrjUnlink

SpecG == InitT /\ [][NextG]_vars

----------------------------------------------------------------------------
(* The ASCII reader on files whose line breaks are not where the format     *)
(* puts them                                                                 *)

\* the lines of frame f with first fields on its first line and last fields
\* on its last line, the lines in between being full
BrokenFrameLines(n, f, first, last, periodic) ==
    [i \in 1 .. lines_per_frame(n) |->
        [j \in 1 .. (IF i = 1 THEN first
                     ELSE IF i = lines_per_frame(n) THEN last
                     ELSE FieldsPerLine) |-> 100 * (f + 1) + FieldsPerLine * (i - 1) + j]]
      \o (IF periodic THEN <<FrameBox(f)>> ELSE <<>>)

RECURSIVE BrokenLines(_, _, _, _, _, _)
BrokenLines(n, f, nf, first, last, periodic) ==
    IF f >= nf THEN <<>>
    ELSE BrokenFrameLines(n, f, first, last, periodic)
           \o BrokenLines(n, f + 1, nf, first, last, periodic)

\* a file of frames that take two lines or more: the first line of each frame
\* is full or lacks its last field, the last line has the fields that are left
\* over or is full
BrokenAtoms == NAtoms + 2

BrokenFiles ==
    {[AsciiFile(BrokenAtoms, nf, periodic, 0, FALSE) EXCEPT
         !.lines = BrokenLines(BrokenAtoms, 0, nf, first, last, periodic)] :
       nf \in TrjFrameCounts, periodic \in BOOLEAN,
       first \in {FieldsPerLine - 1, FieldsPerLine},
       last \in {last_per_line(BrokenAtoms), FieldsPerLine}}

InitM ==
    /\ afile \in BrokenFiles
    /\ trj = NoTrj
    /\ files = NoFiles
    /\ handles = <<>>
    /\ pickle = NoData
    /\ caller = NoCaller
    /\ wstatus = "absent"
    /\ writer = NoWriter
    /\ ncfile = NoFile
    /\ disk = NoFile
    /\ n_created = 0
    /\ written = <<>>
    /\ rstatus = "absent"
    /\ reader = NoReader
    /\ ts = NoTimestep
    /\ call = Called("none", 0, 0, NoFrame)
    /\ result = "ok"
    /\ dt = NoData
    /\ kwargs = NoKwargs

NextM ==
    \/ \E n_arg \in {NoData, <<afile.n_atoms>>} : TrjOpen(n_arg)
    \/ TrjReadNext
    \/ \E k \in FrameIndices : TrjReadFrame(k)
    \/ TrjNFrames
    \/ TrjReopen
    \/ TrjClose

SpecM == InitM /\ [][NextM]_vars

----------------------------------------------------------------------------
(* NCDFPicklable *)

Paths == {"a.nc", "b.nc"}

\* the containers on the file system; the version byte is in the file
StoredFiles ==
    [p \in Paths |-> [exists |-> TRUE, version_byte |-> IF p = "a.nc" THEN 2 ELSE 1]]

\* the arguments of the NCDFPicklable calls: filename, mmap, maskandscale
OpenArgs ==
    {<<"a.nc", "None", FALSE>>, <<"a.nc", "False", TRUE>>,
     <<"b.nc", "True", FALSE>>, <<"b.nc", "False", FALSE>>}

\* NCDFPicklable objects that are made at most
MaxHandles == 2

\* scipy.io.netcdf_file.__init__ in read mode: without mmap argument a file
\* given by its name is mapped; the version byte is read from the file, the
\* version argument is used for writing only
netcdf_file(filename, mmap, version, maskandscale, fs) ==
    [filename |-> filename,
     use_mmap |-> IF mmap = "None" THEN "True" ELSE mmap,
     version_byte |-> fs[filename].version_byte,
     maskandscale |-> maskandscale,
     open |-> TRUE,
     args |-> <<mmap, version, maskandscale>>,
     origin |-> 0]

\* mutant: the state leaves the memory-map flag to the default
getstate_nommap(h) == <<h.filename, "None", h.version_byte, h.maskandscale>>

\* __getstate__
getstate(h) == <<h.filename, h.use_mmap, h.version_byte, h.maskandscale>>

\* __setstate__: "self.__init__(args[0], mmap=args[1], version=args[2],
\* maskandscale=args[3])"
setstate(args, fs) == netcdf_file(args[1], args[2], args[3], args[4], fs)

\* f = NCDFPicklable(filename, mmap=mmap, maskandscale=maskandscale)
PickOpen(a) ==
    /\ Len(handles) < MaxHandles
    /\ call' = Called("NCDFPicklable", 0, 0, NoFrame)
    /\ IF files[a[1]].exists
       THEN /\ handles' = Append(handles, netcdf_file(a[1], a[2], 1, a[3], files))
            /\ result' = "ok"
       ELSE /\ result' = "IOError"
            /\ UNCHANGED handles
    /\ UNCHANGED <<wvars, rvars, dt, kwargs, avars, caller, files, pickle>>

\* pickle.dumps(f) for the i-th object; of: the object that was pickled
PickDump(i) ==
    /\ i \in 1 .. Len(handles)
    /\ call' = Called("NCDFPicklable.__getstate__", 0, i, NoFrame)
    /\ pickle' = [state |-> getstate(handles[i]), of |-> i]
    /\ result' = "ok"
    /\ UNCHANGED <<wvars, rvars, dt, kwargs, avars, caller, files, handles>>

\* pickle.loads: a new object is made and given the state
PickLoad ==
    /\ pickle # NoData
    /\ Len(handles) < MaxHandles
    /\ call' = Called("NCDFPicklable.__setstate__", 0, pickle.of, NoFrame)
    /\ IF files[pickle.state[1]].exists
       THEN /\ handles' = Append(handles, [setstate(pickle.state, files)
                                             EXCEPT !.origin = pickle.of])
            /\ result' = "ok"
       ELSE /\ result' = "IOError"
            /\ UNCHANGED handles
    /\ UNCHANGED <<wvars, rvars, dt, kwargs, avars, caller, files, pickle>>

\* f.close() for the i-th object
PickClose(i) ==
    /\ i \in 1 .. Len(handles)
    /\ call' = Called("NCDFPicklable.close", 0, i, NoFrame)
    /\ handles' = [handles EXCEPT ![i].open = FALSE]
    /\ result' = "ok"
    /\ UNCHANGED <<wvars, rvars, dt, kwargs, avars, caller, files, pickle>>

\* a file is removed by someone else
FileRemove(p) ==
    /\ files[p].exists
    /\ call' = Called("unlink", 0, 0, NoFrame)
    /\ files' = [files EXCEPT ![p].exists = FALSE]
    /\ result' = "ok"
    /\ UNCHANGED <<wvars, rvars, dt, kwargs, avars, caller, handles, pickle>>

InitP ==
    /\ files = StoredFiles
    /\ handles = <<>>
    /\ pickle = NoData
    /\ caller = NoCaller
    /\ afile = NoAsciiFile
    /\ trj = NoTrj
    /\ wstatus = "absent"
    /\ writer = NoWriter
    /\ ncfile = NoFile
    /\ disk = NoFile
    /\ n_created = 0
    /\ written = <<>>
    /\ rstatus = "absent"
    /\ reader = NoReader
    /\ ts = NoTimestep
    /\ call = Called("none", 0, 0, NoFrame)
    /\ result = "ok"
    /\ dt = NoData
    /\ kwargs = NoKwargs

NextP ==
    \/ \E a \in OpenArgs : PickOpen(a)
    \/ \E i \in 1 .. MaxHandles : PickDump(i)
    \/ PickLoad
    \/ \E i \in 1 .. MaxHandles : PickClose(i)
    \/ \E p \in Paths : FileRemove(p)

SpecP == InitP /\ [][NextP]_vars

----------------------------------------------------------------------------
(* Writing and reading back: the writer's operations, then a reader opened  *)
(* on the closed file and asked for frames                                  *)

Init ==
    /\ wstatus = "absent"
    /\ writer = NoWriter
    /\ ncfile = NoFile
    /\ disk = NoFile
    /\ n_created = 0
    /\ written = <<>>
    /\ rstatus = "absent"
    /\ reader = NoReader
    /\ ts = NoTimestep
    /\ call = Called("none", 0, 0, NoFrame)
    /\ result = "ok"
    /\ dt = NoData
    /\ kwargs = NoKwargs
    /\ afile = NoAsciiFile
    /\ trj = NoTrj
    /\ files = NoFiles
    /\ handles = <<>>
    /\ pickle = NoData
    /\ caller = NoCaller

\* the n_atoms argument of NCDFReader(...): None or a number
ReaderArgs == {NoData} \cup {<<n>> : n \in FrameAtomCounts}
\* when reading back: None, or a number that is not the file's
ReadBackArgs == {NoData, <<NAtoms - 1>>}

\* the file is written and closed first and read afterwards
Next ==
    \/ \E cfg \in WriterConfigs : Construct(cfg)
    \/ \E t \in Frames : rstatus = "absent" /\ WriteFrame(t)
    \/ rstatus = "absent" /\ WriterClose
    \/ \E n_arg \in ReadBackArgs, cu \in BOOLEAN : ReaderOpen(n_arg, cu)
    \/ \E k \in FrameIndices : ReadFrame(k)

Spec == Init /\ [][Next]_vars

----------------------------------------------------------------------------
(* The reader's operations on a file that a writer wrote and closed *)

ReaderFileConfigs ==
    {Cfg(NAtoms, cu, TRUE, TRUE, sc) :
        cu \in BOOLEAN, sc \in {NoScale, Only("coordinates", FloatVal(2, 1))}}

\* the writer and its container after the timesteps fs were written in turn
RECURSIVE WriteAll(_, _)
WriteAll(st, fs) ==
    IF fs = <<>> THEN st
    ELSE WriteAll(write_next_frame(st.writer, st.ncfile, st.disk, Head(fs)), Tail(fs))

InitR ==
    \E cfg \in ReaderFileConfigs, nf \in 1 .. MaxFrames, shape \in {"full", "nobox"} :
        LET fs == [i \in 1 .. nf |-> Frame(i, NAtoms, shape)]
            w0 == NewWriter(cfg.n_atoms, cfg.remarks, cfg.convert_units, cfg.velocities,
                            cfg.forces, cfg.scale_factors)
            st == WriteAll([writer |-> w0, ncfile |-> NoFile, disk |-> NoFile,
                            err |-> "ok", created |-> 0], fs)
        IN  /\ wstatus = "constructed"
            /\ writer = close_writer(st.writer)
            /\ ncfile = st.ncfile
            /\ disk = st.ncfile
            /\ n_created = 1
            /\ written = fs
            /\ rstatus = "absent"
            /\ reader = NoReader
            /\ ts = NoTimestep
            /\ call = Called("none", 0, 0, NoFrame)
            /\ result = "ok"
            /\ dt = NoData
            /\ kwargs = NoKwargs
            /\ afile = NoAsciiFile
            /\ trj = NoTrj
            /\ files = NoFiles
            /\ handles = <<>>
            /\ pickle = NoData
            /\ caller = NoCaller

NextR ==
    \/ \E n_arg \in ReaderArgs, cu \in BOOLEAN : ReaderOpen(n_arg, cu)
    \/ \E k \in FrameIndices : ReadFrame(k)
    \/ ReadNext
    \/ Reopen
    \/ ReaderClose

SpecR == InitR /\ [][NextR]_vars

----------------------------------------------------------------------------
(* The reader opening containers that differ from what NCDFWriter writes *)

Absent == "<absent>"

Edit(kind, name, value) == [kind |-> kind, name |-> name, value |-> value]

\* the differences, in the order in which they are applied
EditList ==
    <<Edit("attr", "Conventions", Absent),
      Edit("attr", "Conventions", "CF-1.0"),
      Edit("attr", "Conventions", "CF-1.0,AMBER"),
      Edit("attr", "Conventions", "CF-1.0 AMBER"),
      Edit("attr", "ConventionVersion", Absent),
      Edit("attr", "ConventionVersion", "2.0"),
      Edit("attr", "program", Absent),
      Edit("attr", "programVersion", Absent),
      Edit("attr", "title", "theirs"),
      Edit("version_byte", "", "1"),
      Edit("dim", "spatial", Absent),
      Edit("dim", "spatial", "2"),
      Edit("dim", "atom", Absent),
      Edit("dim", "frame", Absent),
      Edit("dim", "frame", "fixed"),
      Edit("units", "time", "nanosecond"),
      Edit("units", "coordinates", "nanometer"),
      Edit("units", "velocities", "nanometer/picosecond"),
      Edit("units", "forces", "kilojoule/mole/angstrom"),
      Edit("units", "cell_lengths", "nanometer"),
      Edit("units", "cell_angles", "degrees"),
      Edit("scale", "coordinates", "int"),
      Edit("scale", "time", "float"),
      Edit("scale", "spatial", "float"),
      Edit("scale", "temp0", "float"),
      Edit("var", "temp0", "")>>

\* no difference, one difference, or a pair of differences
EditSets ==
    {{}} \cup {{i, j} : i \in 1 .. Len(EditList), j \in 1 .. Len(EditList)}

Without(f, key) == [x \in DOMAIN f \ {key} |-> f[x]]
With(f, key, value) == [x \in DOMAIN f \cup {key} |-> IF x = key THEN value ELSE f[x]]

ApplyEdit(nc, e) ==
    CASE e.kind = "attr" ->
            [nc EXCEPT !.attrs = IF e.value = Absent THEN Without(@, e.name)
                                 ELSE With(@, e.name, e.value)]
      [] e.kind = "version_byte" -> [nc EXCEPT !.version_byte = 1]
      [] e.kind = "dim" ->
            [nc EXCEPT !.dims = IF e.value = Absent THEN Without(@, e.name)
                                ELSE IF e.value = "fixed"
                                THEN With(@, e.name, Len(nc.records))
                                ELSE With(@, e.name, 2)]
      [] e.kind = "units" ->
            IF e.name \in DOMAIN nc.units
            THEN [nc EXCEPT !.units = With(@, e.name, e.value)] ELSE nc
      [] e.kind = "scale" ->
            [nc EXCEPT !.vars = @ \cup {e.name},
                       !.scale = With(@, e.name, IF e.value = "int" THEN IntVal(2)
                                                 ELSE FloatVal(2, 1))]
      [] e.kind = "var" -> [nc EXCEPT !.vars = @ \cup {e.name}]

RECURSIVE ApplyEdits(_, _, _)
ApplyEdits(nc, es, i) ==
    IF i > Len(EditList) THEN nc
    ELSE ApplyEdits(IF i \in es THEN ApplyEdit(nc, EditList[i]) ELSE nc, es, i + 1)

\* the configurations of the writers whose containers are edited
OpenFileConfigs ==
    {Cfg(NAtoms, TRUE, TRUE, TRUE, Only("time", FloatVal(2, 1))),
     Cfg(NAtoms, TRUE, FALSE, FALSE, NoScale)}

\* the container that a writer of configuration cfg leaves after nf frames
Written(cfg, nf) ==
    LET shape == IF cfg.velocities THEN "full" ELSE "bare"
        fs == [i \in 1 .. nf |-> Frame(i, NAtoms, shape)]
        w0 == NewWriter(cfg.n_atoms, cfg.remarks, cfg.convert_units, cfg.velocities,
                        cfg.forces, cfg.scale_factors)
    IN  WriteAll([writer |-> w0, ncfile |-> NoFile, disk |-> NoFile,
                  err |-> "ok", created |-> 0], fs).ncfile

\* the containers that these writers leave
WrittenFiles == {Written(cfg, nf) : cfg \in OpenFileConfigs, nf \in 1 .. MaxFrames}

InitO ==
    \E nc \in WrittenFiles, es \in EditSets :
        /\ wstatus = "absent"
        /\ writer = NoWriter
        /\ ncfile = NoFile
        /\ disk = ApplyEdits(nc, es, 1)
        /\ n_created = 0
        /\ written = <<>>
        /\ rstatus = "absent"
        /\ reader = NoReader
        /\ ts = NoTimestep
        /\ call = Called("none", 0, 0, NoFrame)
        /\ result = "ok"
        /\ dt = NoData
        /\ kwargs = NoKwargs
        /\ afile = NoAsciiFile
        /\ trj = NoTrj
        /\ files = NoFiles
        /\ handles = <<>>
        /\ pickle = NoData
        /\ caller = NoCaller

NextO ==
    \/ \E n_arg \in ReaderArgs, cu \in BOOLEAN : ReaderOpen(n_arg, cu)
    \/ \E k \in FrameIndices : ReadFrame(k)
    \/ GetDt
    \/ \E kw \in WriterKwargs : ReaderWriter(kw)
    \/ ReaderClose

SpecO == InitO /\ [][NextO]_vars

----------------------------------------------------------------------------
(* One caller converting a trajectory: it reads the ASCII file, writes the  *)
(* container and reads the container back                                   *)

ConvertedFiles == {AsciiFile(NAtoms, MaxFrames, periodic, 0, FALSE) : periodic \in BOOLEAN}

ConvertConfigs ==
    {Cfg(NAtoms, TRUE, TRUE, TRUE, NoScale), Cfg(NAtoms, FALSE, FALSE, FALSE, NoScale)}

ConvertFrames == {Frame(s, NAtoms, "full") : s \in Seeds}

InitB == InitT /\ afile \in ConvertedFiles

NextB ==
    \/ wstatus = "absent" /\ TrjOpen(<<afile.n_atoms>>)
    \/ wstatus = "absent" /\ TrjReadNext
    \/ \E k \in 0 .. MaxFrames : wstatus = "absent" /\ TrjReadFrame(k)
    \/ wstatus = "absent" /\ TrjNFrames
    \/ wstatus = "absent" /\ TrjReopen
    \/ \E cfg \in ConvertConfigs : Construct(cfg)
    \/ \E t \in ConvertFrames : rstatus = "absent" /\ WriteFrame(t)
    \/ rstatus = "absent" /\ WriterClose
    \/ \E cu \in BOOLEAN : ReaderOpen(NoData, cu)
    \/ \E k \in 0 .. MaxFrames : ReadFrame(k)
    \/ ReadNext
    \/ Reopen

SpecB == InitB /\ [][NextB]_vars

----------------------------------------------------------------------------
(* Claims about writing and reading back (Spec) *)

\* the reader holds a frame that a write call stored, and converts units as
\* the writer did
HoldsWrittenFrame ==
    /\ rstatus = "constructed"
    /\ ts.frame < Len(written)
    /\ reader.convert_units = writer.convert_units

ArraysReadBack(t) ==
    /\ ts.pos = t.pos
    /\ ts.time = t.time
    /\ writer.has_velocities => ts.velocities = t.velocities
    /\ writer.has_forces => ts.forces = t.forces

C5_WriteAfterAnyClose ==
    [][(call.op = "NCDFWriter.close" /\ call'.op = "write_frame")
          => (result' = "IOError" /\ n_created' = n_created /\ written' = written)]_vars

\* the writer was closed after its container had been created
ClosedAfterInit ==
    wstatus = "constructed" /\ writer.trjfile = "None" /\ ~writer.first_frame

\* C5 amended: a write_frame issued after close() on a writer whose container
\* had been created is an error, creates no container and stores no frame; a
\* close() before the container was created leaves the writer as it was.
C5_WriteAfterClose ==
    [][/\ (ClosedAfterInit /\ call'.op = "write_frame")
            => (result' = "IOError" /\ UNCHANGED <<writer, ncfile, disk, n_created, written>>)
       /\ (call'.op = "NCDFWriter.close" /\ writer.first_frame)
            => UNCHANGED <<writer, ncfile, disk, n_created, written>>]_vars

\* a write with the right atom count was refused on a writer closed after one
\* stored frame
C5_Witness ==
    /\ ClosedAfterInit /\ Len(written) = 1
    /\ call.op = "write_frame" /\ call.n_atoms = writer.n_atoms /\ result = "IOError"

\* C6: constructing a writer touches no file, the container exists exactly
\* once the first accepted write_frame has run, and it is created at most once
\* whatever write_frame and close calls follow.
C6_LazyInitOnce ==
    /\ n_created <= 1
    /\ call.op = "NCDFWriter" => (n_created = 0 /\ ~disk.exists /\ ~ncfile.exists)
    /\ wstatus = "constructed" => (writer.first_frame <=> n_created = 0)
    /\ n_created = 0 => (~disk.exists /\ written = <<>>)

\* a write was refused after the container was created, written to and closed
C6_Witness ==
    /\ n_created = 1 /\ ClosedAfterInit
    /\ call.op = "write_frame" /\ call.n_atoms = writer.n_atoms /\ result = "IOError"
    /\ Len(written) = 1

\* the timestep of call c can be written in full by writer w
Writable(c, w) ==
    /\ c.n_atoms = w.n_atoms
    /\ w.trjfile = "open" \/ w.first_frame
    /\ (w.periodic = "True" /\ ~w.convert_units) => c.has_box
    /\ w.has_velocities => c.has_velocities
    /\ w.has_forces => c.has_forces

\* C7: a write_frame whose timestep has another atom count than the writer
\* raises IOError, stores nothing, creates no container and leaves curr_frame
\* alone; a write of a complete timestep with the right count that follows on
\* an unclosed writer succeeds.
C7_AtomCountMismatch ==
    [][/\ (call'.op = "write_frame" /\ call'.n_atoms # writer.n_atoms)
            => (result' = "IOError" /\ UNCHANGED <<writer, ncfile, disk, n_created, written>>)
       /\ (/\ call.op = "write_frame" /\ call.n_atoms # writer.n_atoms
           /\ call'.op = "write_frame" /\ Writable(call', writer))
            => (result' = "ok" /\ writer'.curr_frame = writer.curr_frame + 1)]_vars

\* the first write was refused for its atom count and left no container
C7_Witness ==
    /\ call.op = "write_frame" /\ call.n_atoms # writer.n_atoms
    /\ result = "IOError" /\ n_created = 0 /\ writer.first_frame
    /\ writer.curr_frame = 0

\* C8: the periodic flag is set from the box of the timestep that creates the
\* container and never changes afterwards; the cell variables exist iff the
\* flag is set, every stored frame then has cell lengths and angles, and none
\* has them otherwise.
C8_Periodic ==
    /\ [](ncfile.exists =>
            /\ writer.periodic # "None"
            /\ writer.periodic = "True" <=> {"cell_lengths", "cell_angles"} \subseteq ncfile.vars
            /\ writer.periodic = "False" <=> {"cell_lengths", "cell_angles"} \cap ncfile.vars = {}
            /\ \A i \in 1 .. Len(written) :
                  IF writer.periodic = "True"
                  THEN /\ Fill \notin {ncfile.records[i]["cell_lengths"][j] : j \in 1 .. 3}
                       /\ Fill \notin {ncfile.records[i]["cell_angles"][j] : j \in 1 .. 3}
                  ELSE {"cell_lengths", "cell_angles"} \cap DOMAIN ncfile.records[i] = {})
    /\ [][/\ writer.periodic # "None" => writer'.periodic = writer.periodic
          /\ (writer.periodic = "None" /\ writer'.periodic # "None")
                => (call'.op = "write_frame"
                    /\ (writer'.periodic = "True" <=> call'.has_box))]_vars

\* a timestep with a box was stored in a container created without one
C8_Witness ==
    /\ writer.periodic = "False" /\ Len(written) = 2
    /\ ~is_periodic(written[1]) /\ is_periodic(written[2])
    /\ call.op = "write_frame" /\ result = "ok"

\* what _write_next_timestep stores of timestep t for variable var
StoredValue(var, t) ==
    LET data == CASE var = "coordinates" ->
                       IF writer.convert_units THEN convert_pos_to_native(t.pos) ELSE t.pos
                  [] var = "time" ->
                       <<IF writer.convert_units THEN convert_time_to_native(t.time)
                         ELSE t.time>>
        sf == writer.scale_factors[var]
    IN  IF sf = None \/ isclose1(sf.v) THEN data ELSE DivArr(data, sf.v)

\* C9: curr_frame is the number of write_frame calls that succeeded, the k-th
\* of them is stored at frame index k-1 and stays there, and the file is in
\* sync with the writer's container after every successful write.
C9_Append ==
    wstatus = "constructed" =>
        /\ writer.curr_frame = Len(written)
        /\ ncfile.exists => Len(ncfile.records) >= Len(written)
        /\ \A k \in 1 .. Len(written) :
              /\ ncfile.records[k]["coordinates"] = StoredValue("coordinates", written[k])
              /\ ncfile.records[k]["time"] = StoredValue("time", written[k])
        /\ (call.op = "write_frame" /\ result = "ok") => disk = ncfile

\* two different timesteps were stored one after the other
C9_Witness ==
    /\ call.op = "write_frame" /\ result = "ok"
    /\ Len(written) = 2 /\ written[1].time # written[2].time
    /\ Len(ncfile.records) = 2

\* C10: a writer is only ever constructed with an atom count > 0 and with
\* scale factors that are each None or a float; any other configuration is
\* refused by the constructor.
C10_ValidConfiguration ==
    /\ wstatus = "constructed" =>
          /\ writer.n_atoms > 0
          /\ \A v \in ScaleVars : writer.scale_factors[v] = None
                                    \/ IsFloat(writer.scale_factors[v])
    /\ (call.op = "NCDFWriter" /\ call.n_atoms <= 0) => result # "ok"

----------------------------------------------------------------------------
(* Claims about scale factors (Spec) *)

\* a scale factor that is absent or numerically 1.0
NoScaling(sf) == sf = None \/ isclose1(sf.v)

\* what _write_next_timestep hands to _set_frame_var_and_scale for variable var
DataHanded(var, t) ==
    LET cu == writer.convert_units
        unitcell == IF cu THEN convert_dimensions_to_unitcell(t) ELSE t.dimensions
    IN  CASE var = "coordinates" -> IF cu THEN convert_pos_to_native(t.pos) ELSE t.pos
          [] var = "time" -> <<IF cu THEN convert_time_to_native(t.time) ELSE t.time>>
          [] var = "cell_lengths" -> SubSeq(unitcell, 1, 3)
          [] var = "cell_angles" -> SubSeq(unitcell, 4, 6)
          [] var = "velocities" ->
                IF cu THEN convert_velocities_to_native(t.velocities) ELSE t.velocities
          [] var = "forces" ->
                IF cu THEN convert_forces_to_native(t.forces) ELSE t.forces

\* the value that _read_frame got from _get_var_and_scale for variable var,
\* recovered from the frame buffer by undoing the reader's unit conversion
ValueGot(var) ==
    LET cu == reader.convert_units
    IN  CASE var = "coordinates" -> IF cu THEN convert_pos_to_native(ts.pos) ELSE ts.pos
          [] var = "time" -> <<ts.time>>
          [] var = "cell_lengths" ->
                IF cu THEN convert_pos_to_native(SubSeq(ts.dimensions, 1, 3))
                ELSE SubSeq(ts.dimensions, 1, 3)
          [] var = "cell_angles" -> SubSeq(ts.dimensions, 4, 6)
          [] var = "velocities" ->
                IF cu THEN convert_velocities_to_native(ts.velocities) ELSE ts.velocities
          [] var = "forces" ->
                IF cu THEN convert_forces_to_native(ts.forces) ELSE ts.forces

\* C11: for each of the six scalable variables the writer stores the value
\* unchanged when its scale factor is absent or numerically 1.0 and the value
\* divided by the scale factor otherwise; the reader returns the stored value
\* unchanged when the scale factor is absent or numerically 1.0 and the stored
\* value times the scale factor otherwise (10.0 with factor 2.0 reads as 20.0).
C11_ScaleArithmetic ==
    /\ ncfile.exists =>
          \A k \in 1 .. Len(written), var \in FrameVars(ncfile) :
              LET sf == writer.scale_factors[var]
                  data == DataHanded(var, written[k])
              IN  ncfile.records[k][var] =
                     IF NoScaling(sf) THEN data
                     ELSE [i \in DOMAIN data |-> Rat(data[i][1] * sf.v[2],
                                                     data[i][2] * sf.v[1])]
    /\ rstatus = "constructed" =>
          \A var \in FrameVars(disk) :
              LET sf == reader.scale_factors[var]
                  raw == disk.records[ts.frame + 1][var]
              IN  ValueGot(var) =
                     IF NoScaling(sf) THEN raw
                     ELSE [i \in DOMAIN raw |->
                             IF raw[i] = Fill THEN Fill
                             ELSE Rat(raw[i][1] * sf.v[1], raw[i][2] * sf.v[2])]
    /\ ScaledFromRead(FloatVal(2, 1), << <<10, 1>> >>) = << <<20, 1>> >>
    /\ ScaledFromRead(Near1, << <<10, 1>> >>) = << <<10, 1>> >>
    /\ ScaledForStore(Near1, << <<10, 1>> >>) = << <<10, 1>> >>

\* the second frame was read back from a container whose forces carry the
\* scale factor 2.0, by a reader that converts units
C11_Witness ==
    /\ rstatus = "constructed" /\ call.op = "read_frame" /\ result = "ok"
    /\ ts.frame = 1 /\ reader.convert_units
    /\ reader.scale_factors["forces"] = FloatVal(2, 1)
    /\ writer.scale_factors["forces"] = FloatVal(2, 1)

----------------------------------------------------------------------------
(* Claims about opening a container (SpecO) *)

\* the container on the file is a written one changed by edits of idx only
MadeWith(idx) ==
    \E nc \in WrittenFiles, es \in EditSets :
        es \subseteq idx /\ disk = ApplyEdits(nc, es, 1)

SoftEdits ==
    {i \in 1 .. Len(EditList) :
        EditList[i] \in {Edit("attr", "ConventionVersion", "2.0"),
                         Edit("attr", "program", Absent),
                         Edit("attr", "programVersion", Absent)}}

ScaleEdits == {i \in 1 .. Len(EditList) : EditList[i].kind \in {"scale", "var"}}

\* the n_atoms argument of the call is None or the atom dimension of the file
AtomArgumentFits(c) == c.n_atoms = -1 \/ c.n_atoms = disk.dims["atom"]

\* the conditions that C12 names as hard errors
OmitsAmber ==
    ~("Conventions" \in DOMAIN disk.attrs)
      \/ disk.attrs["Conventions"] \notin {"AMBER", "CF-1.0,AMBER", "CF-1.0 AMBER"}
NotOffset64 == disk.version_byte # 2
NotAngstrom == disk.units["coordinates"] # "angstrom"

\* C12: opening a container whose Conventions lack the token AMBER, whose
\* version byte is not 2 or whose coordinates unit is not "angstrom" fails:
\* no reader is constructed and no frame is read; a container that differs
\* from a written one only by a ConventionVersion other than "1.0" or by
\* missing program / programVersion attributes is opened with the matching
\* warnings, its first frame is read and its frames can be read afterwards.
C12_OpenClassification ==
    [][/\ (rstatus = "absent" /\ call'.op = "NCDFReader") =>
            /\ (OmitsAmber \/ NotOffset64 \/ NotAngstrom) =>
                  /\ result' \in {"TypeError", "ValueError", "NotImplementedError"}
                  /\ rstatus' = "failed" /\ reader' = NoReader /\ ts' = NoTimestep
            /\ (MadeWith(SoftEdits) /\ AtomArgumentFits(call')) =>
                  /\ result' = "ok" /\ rstatus' = "constructed"
                  /\ reader'.trjfile = "open" /\ ts'.frame = 0
                  /\ ts'.pos # Zeros(3 * NAtoms)
                  /\ "ConventionVersion" \in reader'.warnings
                        <=> disk.attrs["ConventionVersion"] # "1.0"
                  /\ "program" \in reader'.warnings
                        <=> ~({"program", "programVersion"} \subseteq DOMAIN disk.attrs)
       /\ (/\ rstatus = "constructed" /\ reader.trjfile = "open"
           /\ call'.op = "read_frame" /\ call'.k \in 0 .. (Len(disk.records) - 1))
            => (result' = "ok" /\ ts'.frame = call'.k)]_vars

\* the second frame was read by a reader that was opened with both warnings
C12_Witness ==
    /\ rstatus = "constructed" /\ reader.warnings = {"ConventionVersion", "program"}
    /\ call.op = "read_frame" /\ result = "ok" /\ ts.frame = 1

\* the variables of the file that carry a scale_factor attribute
Scaled == {v \in disk.vars : v \in DOMAIN disk.scale /\ disk.scale[v] # None}

\* C13: a reader is constructed only if every variable of the container with
\* a scale_factor attribute is one of the six scalable variables and its
\* attribute is a float; it then registers exactly these attributes and keeps
\* None for the other variables.  In a container that is otherwise as written,
\* a scale_factor on another variable is a NotImplementedError and a
\* scale_factor that is not a float is a TypeError.
C13_ScaleAllowList ==
    [][(rstatus = "absent" /\ call'.op = "NCDFReader") =>
          /\ result' = "ok" =>
                /\ \A v \in Scaled : v \in ScaleVars /\ disk.scale[v].kind = "float"
                /\ \A v \in ScaleVars :
                      reader'.scale_factors[v] = IF v \in Scaled THEN disk.scale[v] ELSE None
          /\ (MadeWith(ScaleEdits) /\ AtomArgumentFits(call')) =>
                LET unknown == Scaled \ ScaleVars
                    nonfloat == {v \in Scaled \cap ScaleVars : disk.scale[v].kind # "float"}
                IN  /\ (unknown # {} /\ nonfloat = {}) => result' = "NotImplementedError"
                    /\ (nonfloat # {} /\ unknown = {}) => result' = "TypeError"
                    /\ (unknown # {} /\ nonfloat # {})
                          => result' \in {"NotImplementedError", "TypeError"}
                    /\ (unknown = {} /\ nonfloat = {}) => result' = "ok"
                    /\ result' # "ok" => (rstatus' = "failed" /\ reader' = NoReader)]_vars

\* opening a container with a scale factor on a variable that is not scalable
\* was refused
C13_Witness ==
    /\ call.op = "NCDFReader" /\ result = "NotImplementedError" /\ rstatus = "failed"
    /\ "temp0" \in Scaled /\ MadeWith(ScaleEdits)

\* C14: on an open reader of a container with at least two frames _get_dt
\* returns the stored time of frame 1 minus the stored time of frame 0 (the
\* frames written at times 1 and 2 without a time scale factor give 1); with
\* fewer than two frames it raises AttributeError and returns nothing.
C14_GetDt ==
    [][(rstatus = "constructed" /\ call'.op = "get_dt") =>
          /\ (reader.n_frames >= 2 /\ reader.trjfile = "open") =>
                LET t0 == disk.records[1]["time"][1]
                    t1 == disk.records[2]["time"][1]
                IN  /\ result' = "ok"
                    /\ dt' = Rat(t1[1] * t0[2] - t0[1] * t1[2], t1[2] * t0[2])
                    /\ ~("time" \in Scaled) => dt' = <<1, 1>>
          /\ reader.n_frames < 2 => (result' = "AttributeError" /\ dt' = dt)
          /\ UNCHANGED <<reader, ts>>]_vars

\* the derivation was refused on an open reader of a container with one frame
C14_Witness ==
    /\ call.op = "get_dt" /\ result = "AttributeError"
    /\ reader.trjfile = "open" /\ reader.n_frames = 1 /\ dt = NoData

\* the value of keyword key of the Writer call: the caller's if passed, else
\* the reader's
Chosen(kw, key, own) == IF key \in kw.set THEN kw[key] ELSE own

\* what C15 says of all attributes but the title
WriterAsReader(r, w, kw) ==
    /\ w.n_atoms = Chosen(kw, "n_atoms", r.n_atoms)
    /\ w.has_velocities = Chosen(kw, "velocities", r.has_velocities)
    /\ w.has_forces = Chosen(kw, "forces", r.has_forces)
    /\ w.convert_units = Chosen(kw, "convert_units", r.convert_units)
    /\ \A v \in ScaleVars :
          w.scale_factors[v] = IF v \in kw.scale_set THEN kw.scale_factors[v]
                               ELSE r.scale_factors[v]

\* C15 as stated: the writer returned by Writer has the reader's atom count,
\* title, velocities, forces and convert-units flags and scale factors, or the
\* caller's value for each that the caller passes; the reader is unchanged.
C15_WriterFactoryTitle ==
    [][(call'.op = "NCDFReader.Writer" /\ result' = "ok") =>
          /\ WriterAsReader(reader, writer', kwargs')
          /\ writer'.remarks = Chosen(kwargs', "remarks", reader.remarks)
          /\ UNCHANGED <<rvars, disk>>]_vars

\* C15 amended: as stated, but the writer's title is the caller's or else the
\* reader's only if that is a non-empty string, and the writer's default
\* remarks otherwise; a call that raises returns no writer.
C15_WriterFactory ==
    [][call'.op = "NCDFReader.Writer" =>
          /\ result' = "ok" =>
                /\ WriterAsReader(reader, writer', kwargs')
                /\ LET title == Chosen(kwargs', "remarks", reader.remarks)
                   IN  writer'.remarks =
                          IF title \in {"", NoRemarks}
                          THEN "AMBER NetCDF format (MDAnalysis.coordinates.trj.NCDFWriter)"
                          ELSE title
                /\ wstatus' = "constructed"
          /\ result' # "ok" => (wstatus' = "failed" /\ writer' = writer)
          /\ UNCHANGED <<rvars, disk>>]_vars

\* a writer with the caller's atom count and velocities flag and the reader's
\* title and time scale factor was returned
C15_Witness ==
    /\ call.op = "NCDFReader.Writer" /\ result = "ok"
    /\ kwargs.set = {"n_atoms", "velocities"} /\ writer.n_atoms = 1
    /\ reader.n_atoms = NAtoms /\ writer.has_velocities
    /\ reader.remarks = "theirs" /\ writer.remarks = "theirs"
    /\ reader.scale_factors["time"] = FloatVal(2, 1)
    /\ writer.scale_factors["time"] = FloatVal(2, 1)

\* the time that the reader puts in its frame buffer when asked for frame k
ReportedTime(k) == read_frame_ts(reader, disk, ts, k).time

\* C34: on a reader that does not convert units, of a container with at least
\* two frames, the dt that _get_dt returns is the time that the reader reports
\* for frame 1 minus the time that it reports for frame 0, whatever the scale
\* factor of the time variable is.
C34_DtFromReportedTimes ==
    [][(/\ rstatus = "constructed" /\ ~reader.convert_units /\ reader.n_frames >= 2
        /\ call'.op = "get_dt" /\ result' = "ok")
          => dt' = RSub(ReportedTime(1), ReportedTime(0))]_vars

----------------------------------------------------------------------------
(* Claims about the writer's defaults and the caller's buffers (Spec) *)

\* 20.455, the scale factor of velocities that the documentation of the
\* writer gives as its default
DefaultVelocityScale == FloatVal(4091, 200)

\* C25: a writer has a scale factor for velocities in every case, the one that
\* the caller passed or else 20.455, and a container with velocities that it
\* has made carries a scale_factor attribute on the velocities variable.
C25_DefaultVelocityScale ==
    /\ (wstatus = "constructed" /\ writer.n_atoms > 0)
          => writer.scale_factors["velocities"]
                \in ({DefaultVelocityScale}
                       \cup {sc["velocities"] : sc \in ScaleConfigs}) \ {None}
    /\ (ncfile.exists /\ "velocities" \in ncfile.vars)
          => HasScaleAttr(ncfile, "velocities")

\* C30: a write call leaves the Timestep of the caller as it was passed: none
\* of its positions, time, box, velocities and forces differs afterwards from
\* what it was before the call, whatever convert_units and the scale factors
\* of the writer are, and whether the call returns or raises.
C30_SourceUnchanged == caller.changed = {}

\* a writer that converts units and divides the forces by a scale factor has
\* written a frame with box, velocities and forces, whose forces are not what
\* the conversion makes of them
C30_Witness ==
    /\ call.op = "write_frame" /\ result = "ok"
    /\ writer.convert_units /\ writer.has_velocities /\ writer.has_forces
    /\ writer.scale_factors["forces"] = FloatVal(2, 1)
    /\ writer.periodic = "True"
    /\ caller.changed = {}
    /\ LET t == written[Len(written)]
       IN  t.forces # convert_forces_to_native(t.forces)

\* C31: after every write_frame call, whether it returned or raised, the
\* container holds exactly curr_frame frame records, in the library and on the
\* file; a write_frame call that raises leaves no record behind and changes
\* no record that was there.
C31_NoPartialRecord ==
    /\ [](wstatus = "constructed" =>
            /\ ncfile.exists => Len(ncfile.records) = writer.curr_frame
            /\ disk.exists => Len(disk.records) = writer.curr_frame)
    /\ [][(call'.op = "write_frame" /\ result' # "ok" /\ ncfile.exists)
            => (ncfile'.exists /\ ncfile'.records = ncfile.records)]_vars

----------------------------------------------------------------------------
(* Claims about the reader on the writer's containers (Spec) *)

\* a reader is being opened on the container of a writer that has written at
\* least one frame, with scale factors that are None or positive floats, and
\* is given no atom count or the writer's
OpensWritten(c) ==
    /\ rstatus = "absent" /\ c.op = "NCDFReader"
    /\ Len(written) >= 1
    /\ c.n_atoms \in {-1, writer.n_atoms}
    /\ \A v \in ScaleVars :
          writer.scale_factors[v] = None
            \/ (IsFloat(writer.scale_factors[v]) /\ writer.scale_factors[v].v[1] > 0)

\* the reader has the atom count and the velocities, forces and periodic
\* flags of the writer
SchemaAsWriter(r, w) ==
    /\ r.n_atoms = w.n_atoms
    /\ r.has_velocities = w.has_velocities
    /\ r.has_forces = w.has_forces
    /\ r.periodic = (w.periodic = "True")

\* the variables that a writer creates in its container
Created(w) ==
    {"time", "coordinates"}
      \cup (IF w.periodic = "True" THEN {"cell_lengths", "cell_angles"} ELSE {})
      \cup (IF w.has_velocities THEN {"velocities"} ELSE {})
      \cup (IF w.has_forces THEN {"forces"} ELSE {})

\* C32 as stated: a container that a writer of any configuration has written
\* at least one frame to passes the hard checks of the reader's constructor,
\* and the reader has the writer's atom count, velocities, forces and periodic
\* flags and, for each of the six variables, the writer's scale factor.
C32_ReaderAsConfigured ==
    [][OpensWritten(call') =>
          /\ result' = "ok" /\ rstatus' = "constructed"
          /\ SchemaAsWriter(reader', writer)
          /\ \A v \in ScaleVars : reader'.scale_factors[v] = writer.scale_factors[v]]_vars

\* C32 amended: as stated, but the reader has the writer's scale factor for
\* the variables that the writer created in the container, and None for the
\* others (velocities or forces that are switched off, the cell variables of a
\* container without box), whatever scale factor the writer was given for them.
C32_ReaderAsWritten ==
    [][OpensWritten(call') =>
          /\ result' = "ok" /\ rstatus' = "constructed"
          /\ SchemaAsWriter(reader', writer)
          /\ \A v \in ScaleVars :
                reader'.scale_factors[v] =
                   IF v \in Created(writer) THEN writer.scale_factors[v] ELSE None]_vars

\* a reader was opened on a container without box, with velocities and forces,
\* of two frames, whose writer was given a scale factor for the cell lengths
C32_Witness ==
    /\ call.op = "NCDFReader" /\ result = "ok" /\ rstatus = "constructed"
    /\ Len(written) = 2 /\ SchemaAsWriter(reader, writer)
    /\ ~reader.periodic /\ reader.has_velocities /\ reader.has_forces
    /\ writer.scale_factors["cell_lengths"] = FloatVal(2, 1)
    /\ reader.scale_factors["cell_lengths"] = None

\* C33: the title (remarks) of a writer is stored in the container that it
\* writes: a reader opened on the written file has the writer's title.
C33_TitleStored ==
    (rstatus = "constructed" /\ Len(written) >= 1) => reader.remarks = writer.remarks

----------------------------------------------------------------------------
(* Claims about the ASCII reader (SpecT) *)

\* the file holds complete frames under a title of at most 80 characters
WellFormed == afile.cut = 0 /\ ~afile.long_header

\* TRJReader(filename, n_atoms=...) is being called with n_atoms atoms
Opening(c) == trj.status = "absent" /\ c.op = "TRJReader"

\* C16: for n_atoms >= 2 and a well-formed file of at least one frame the
\* constructor completes, periodic is set iff the file has box lines, the
\* first frame holds the coordinates without the box line, and the box of a
\* periodic file is (a, b, c, 90, 90, 90).
C16_PeriodicDetection ==
    [][(Opening(call') /\ call'.n_atoms >= 2 /\ WellFormed /\ afile.frames >= 1) =>
          /\ result' = "ok"
          /\ trj'.periodic = "True" <=> afile.periodic
          /\ trj'.periodic = "False" <=> ~afile.periodic
          /\ trj'.frame = 0 /\ trj'.pos = FrameCoords(afile.n_atoms, 0)
          /\ afile.periodic => trj'.dimensions = FrameBox(0) \o RightAngles]_vars

\* C17: a reader of one atom is never periodic and has warned exactly once,
\* whatever the file holds and whatever was called since; its constructor
\* opens the file once only, to read the first frame.
C17_SingleAtom ==
    /\ []((trj.status = "constructed" /\ trj.n_atoms = 1)
             => (trj.periodic = "False" /\ trj.warnings = 1))
    /\ []((trj.status = "constructed" /\ trj.n_atoms # 1) => trj.warnings = 0)
    /\ [][(Opening(call') /\ call'.n_atoms = 1 /\ result' = "ok")
             => (trj'.opens = 1 /\ trj'.trjfile = 1 /\ trj'.frame = 0)]_vars

\* a reader of one atom on a file with box lines was reopened after a read
\* of a frame
C17_Witness ==
    /\ trj.status = "constructed" /\ trj.n_atoms = 1 /\ afile.periodic
    /\ call.op = "TRJReader.reopen" /\ trj.has_offsets
    /\ trj.warnings = 1 /\ trj.periodic = "False"

\* C18 as stated: on a well-formed file of F frames, periodic or not, n_frames
\* is F, and after a reopen exactly F read_next calls succeed, with frame
\* indices 0 .. F-1, before read_next raises EOFError.
C18_FrameCountEveryFile ==
    /\ []((trj.status = "constructed" /\ WellFormed /\ trj.n_frames # NotCached)
             => trj.n_frames = afile.frames)
    /\ [][(/\ trj.status = "constructed" /\ WellFormed /\ trj.run >= 0
           /\ call'.op = "TRJReader.read_next")
             => IF trj.run < afile.frames
                THEN result' = "ok" /\ trj'.frame = trj.run
                ELSE result' = "EOFError"]_vars

\* the frames that the reader finds in a well-formed file: with one atom the
\* box lines of a periodic file are taken for frames
FramesFound ==
    IF trj.n_atoms = 1 /\ afile.periodic THEN 2 * afile.frames ELSE afile.frames

\* C18 amended: on a well-formed file of F frames n_frames is F, and after a
\* reopen exactly F read_next calls succeed, with frame indices 0 .. F-1 and
\* the coordinates of these frames, before read_next raises EOFError, unless
\* the reader has one atom and the file has box lines: then both numbers are 2F.
C18_FrameCount ==
    /\ []((trj.status = "constructed" /\ WellFormed /\ trj.n_frames # NotCached)
             => (trj.n_frames = FramesFound /\ Len(trj.offsets) = FramesFound))
    /\ [][(/\ trj.status = "constructed" /\ WellFormed /\ trj.run >= 0
           /\ call'.op = "TRJReader.read_next")
             => IF trj.run < FramesFound
                THEN /\ result' = "ok" /\ trj'.frame = trj.run
                     /\ trj.n_atoms >= 2 => trj'.pos = FrameCoords(trj.n_atoms, trj.run)
                ELSE result' = "EOFError" /\ trj'.frame = trj.frame]_vars

\* the read_next after the last frame of a periodic file of three frames was
\* refused and the frame count is known
C18_Witness ==
    /\ trj.status = "constructed" /\ WellFormed /\ afile.periodic
    /\ trj.n_atoms >= 2 /\ afile.frames = 3 /\ trj.n_frames = 3
    /\ call.op = "TRJReader.read_next" /\ result = "EOFError" /\ trj.frame = 2

\* C19: in every state of a reader on a well-formed file, closed or not and
\* whether or not n_frames was asked before, read_frame(k) with
\* 0 <= k < n_frames builds the offsets if needed and returns frame k with
\* frame index k; a read_next that follows returns frame k+1.
C19_RandomAccess ==
    [][/\ (/\ trj.status = "constructed" /\ WellFormed
           /\ call'.op = "TRJReader.read_frame" /\ call'.k \in 0 .. (FramesFound - 1))
            => /\ result' = "ok" /\ trj'.has_offsets /\ trj'.frame = call'.k
               /\ trj.n_atoms >= 2 =>
                     /\ trj'.pos = FrameCoords(trj.n_atoms, call'.k)
                     /\ afile.periodic => trj'.dimensions = FrameBox(call'.k) \o RightAngles
       /\ (/\ trj.status = "constructed" /\ WellFormed
           /\ call.op = "TRJReader.read_frame" /\ result = "ok"
           /\ call'.op = "TRJReader.read_next"
           /\ call.k >= 0 /\ call.k + 1 < FramesFound)
            => (result' = "ok" /\ trj'.frame = call.k + 1)]_vars

\* the lines left to read, and the lines that a frame takes
Available ==
    IF trj.trjfile = Closed THEN Len(afile.lines) ELSE Len(afile.lines) - trj.trjfile
Required == lines_per_frame(trj.n_atoms) + (IF trj.periodic = "True" THEN 1 ELSE 0)

\* C20: read_next raises EOFError iff no line is left when it starts; with at
\* least one line left but fewer than a frame takes it raises another
\* exception, leaves the coordinates of the frame buffer alone and does not
\* increment the frame index.
C20_EndOfStream ==
    [][(/\ trj.status = "constructed" /\ ~afile.long_header
        /\ call'.op = "TRJReader.read_next")
          => /\ result' = "EOFError" <=> Available = 0
             /\ (0 < Available /\ Available < Required)
                   => /\ result' \in {"ValueError", "StopIteration"}
                      /\ trj'.pos = trj.pos
                      /\ trj'.frame = IF trj.trjfile = Closed THEN -1 ELSE trj.frame]_vars

\* the read of a frame whose second line is missing was refused
C20_Witness ==
    /\ trj.status = "constructed" /\ afile.cut = 1 /\ lines_per_frame(trj.n_atoms) = 2
    /\ call.op = "TRJReader.read_next" /\ result = "ValueError"
    /\ trj.frame = 0 /\ trj.trjfile = Len(afile.lines)

----------------------------------------------------------------------------
(* Claims about the ASCII reader on a file that changes (SpecG) *)

\* C21: n_frames returns the length of the offset index; the scan of the file
\* succeeds at most once per reader, and a query after it returns the cached
\* count and changes nothing, whatever was called in between; when the file
\* cannot be opened the query returns 0 and raises nothing.
C21_FrameCountCache ==
    /\ [](trj.scans <= 1)
    /\ []((trj.status = "constructed" /\ trj.n_frames # NotCached)
             => (trj.scans = 1 /\ trj.has_offsets /\ trj.n_frames = Len(trj.offsets)))
    /\ [][(trj.status = "constructed" /\ call'.op = "TRJReader.n_frames") =>
             /\ result' = "ok"
             /\ trj'.returned = Len(trj'.offsets)
             /\ trj.n_frames # NotCached
                   => [trj' EXCEPT !.wasclosed = trj.wasclosed]
                        = [trj EXCEPT !.returned = trj.n_frames]
             /\ (trj.n_frames = NotCached /\ afile.gone)
                   => (trj'.returned = 0 /\ trj'.n_frames = NotCached /\ trj'.scans = 0)
             /\ (trj.n_frames = NotCached /\ ~afile.gone)
                   => (trj'.n_frames = trj'.returned /\ trj'.scans = 1)]_vars

\* the frame count of a closed reader was asked again after the file had gone
C21_Witness ==
    /\ trj.status = "constructed" /\ afile.gone /\ trj.trjfile = Closed
    /\ call.op = "TRJReader.n_frames" /\ trj.scans = 1
    /\ trj.returned = afile.frames /\ afile.frames > 1

\* C22: close never fails and leaves the reader closed with everything else
\* as it was: n_atoms, periodic, the cached frame count, the offset index and
\* the frame buffer; on a reader that is closed already it changes nothing.
C22_CloseIdempotent ==
    [][(trj.status = "constructed" /\ call'.op = "TRJReader.close") =>
          /\ result' = "ok"
          /\ trj'.trjfile = Closed
          /\ [trj' EXCEPT !.run = trj.run, !.wasclosed = trj.wasclosed]
                = [trj EXCEPT !.trjfile = Closed]
          /\ trj.trjfile = Closed
                => [trj' EXCEPT !.run = trj.run, !.wasclosed = trj.wasclosed] = trj]_vars

\* a reader with its frame count cached was closed when it was closed already
C22_Witness ==
    /\ trj.status = "constructed" /\ call.op = "TRJReader.close" /\ trj.wasclosed
    /\ trj.trjfile = Closed /\ trj.n_frames = afile.frames /\ trj.periodic = "True"

\* C23 as stated: after close(), a read_next or a read_frame on the reader
\* fails with an error and returns no frame.
C23_ReuseAfterCloseFails ==
    [][(/\ trj.status = "constructed" /\ trj.trjfile = Closed
        /\ call.op = "TRJReader.close"
        /\ call'.op \in {"TRJReader.read_next", "TRJReader.read_frame"})
          => result' # "ok"]_vars

\* the file can be opened and its title is not too long
Openable == ~afile.gone /\ afile.header.text <= HeaderLimit

\* C23 amended: on a closed reader read_next opens the file again and returns
\* frame 0 with frame index 0, and read_frame(k) opens the file again and
\* returns frame k when the offset index was built and 0 <= k < n_frames
\* (without offset index it raises AttributeError); the calls fail for the
\* closed reader only when the file cannot be opened again (IOError) or its
\* title is longer than 80 characters (OSError), and then the frame buffer is
\* left as it was.
C23_ReuseAfterCloseReopens ==
    [][/\ (/\ trj.status = "constructed" /\ trj.trjfile = Closed
           /\ call'.op = "TRJReader.read_next")
            => /\ Openable =>
                    /\ result' = "ok" /\ trj'.trjfile # Closed
                    /\ trj'.frame = 0 /\ trj'.pos = FrameCoords(trj.n_atoms, 0)
               /\ ~Openable =>
                    /\ result' = IF afile.gone THEN "IOError" ELSE "OSError"
                    /\ trj'.frame = trj.frame /\ trj'.pos = trj.pos
                    /\ trj'.dimensions = trj.dimensions
       /\ (/\ trj.status = "constructed" /\ trj.trjfile = Closed
           /\ call'.op = "TRJReader.read_frame")
            => /\ (Openable /\ ~trj.has_offsets) => result' = "AttributeError"
               /\ (Openable /\ afile.cut = 0 /\ trj.n_frames # NotCached
                     /\ call'.k \in 0 .. (trj.n_frames - 1))
                    => /\ result' = "ok" /\ trj'.trjfile # Closed /\ trj'.frame = call'.k
                       /\ trj.n_atoms >= 2 => trj'.pos = FrameCoords(trj.n_atoms, call'.k)
               /\ ~Openable =>
                    /\ result' = IF afile.gone THEN "IOError" ELSE "OSError"
                    /\ trj'.frame = trj.frame /\ trj'.pos = trj.pos]_vars

\* a read_next on a reader that was closed after its second frame returned
\* the first frame
C23_Witness ==
    /\ trj.status = "constructed" /\ trj.wasclosed /\ trj.trjfile # Closed
    /\ call.op = "TRJReader.read_next" /\ result = "ok"
    /\ trj.frame = 0 /\ trj.n_atoms >= 2 /\ trj.pos = FrameCoords(trj.n_atoms, 0)

\* what a read_next on reader r would make of the stream, the buffer and the
\* frame index, and how it would end
NextRead(r) ==
    LET out == read_next_timestep(r, afile)
    IN  [err |-> out.err, trjfile |-> out.r.trjfile, ts |-> Timestep(out.r)]

\* C35: a query of n_frames, whether it scans the file or returns the cached
\* count, leaves the position of the reader's stream, its being open or
\* closed, the frame buffer and the frame index as they were, so that a
\* read_next after the query gives what it would have given without it.
C35_FrameCountQuery ==
    [][call'.op = "TRJReader.n_frames" =>
          /\ trj'.trjfile = trj.trjfile
          /\ Timestep(trj') = Timestep(trj)
          /\ NextRead(trj') = NextRead(trj)]_vars

\* the first query of n_frames went through a file of several frames while
\* the reader was open on it after the first frame, which it still holds
C35_Witness ==
    /\ call.op = "TRJReader.n_frames" /\ trj.scans = 1 /\ trj.returned >= 2
    /\ trj.trjfile # Closed /\ trj.trjfile < Len(afile.lines)
    /\ trj.frame = 0 /\ trj.pos = FrameCoords(trj.n_atoms, 0)
    /\ NextRead(trj).err = "ok" /\ NextRead(trj).ts.frame = 1

----------------------------------------------------------------------------
(* Claims about the decoding of the lines of a frame (SpecM) *)

\* the line of the file at which a read_next on reader r starts
FrameStart(r) == IF r.trjfile = Closed THEN 0 ELSE r.trjfile

\* C36: whenever read_next returns a frame, every line of coordinates of the
\* frame but the last was decoded with the full-width decoder: a frame with a
\* line before its last that lacks a field is never returned as decoded.
C36_FullWidthLines ==
    [][(call'.op = "TRJReader.read_next" /\ result' = "ok") =>
          \A i \in 1 .. (lines_per_frame(trj.n_atoms) - 1) :
              ~ParserFails(FieldsPerLine, afile.lines[FrameStart(trj) + i])]_vars

\* the step is a call that opens the file: the constructor given an atom
\* count, a reopen, or a read by a reader whose file is closed
OpensFile ==
    \/ call'.op = "TRJReader" /\ call'.n_atoms # -1
    \/ call'.op = "TRJReader.reopen"
    \/ call'.op \in {"TRJReader.read_next", "TRJReader.read_frame"} /\ trj.trjfile = Closed

\* C27: every open of the ASCII reader (by the constructor, by a reopen, by a
\* read on a closed file) of a file that exists fails with OSError exactly when
\* the title line without its trailing whitespace has more than 80 characters.
\* An open that succeeds passes the title line and starts from frame index -1:
\* after a reopen the index is -1 and the file is at its first frame, after
\* the constructor or a sequential read the reader holds frame 0 read from the
\* first lines, after a seek to k it holds frame k.  A call whose open fails
\* leaves the frame buffer as it was and hands nothing to the caller.
C27_OpenTitleLine ==
    [][(OpensFile /\ ~afile.gone)
         => /\ (result' = "OSError") <=> (afile.header.text > HeaderLimit)
            /\ (result' = "OSError")
                 => Timestep(trj') = Timestep(trj) /\ caller' = caller
            /\ (result' = "ok" /\ call'.op = "TRJReader.reopen")
                 => trj'.frame = -1 /\ trj'.trjfile = 0
            /\ (result' = "ok" /\ call'.op \in {"TRJReader", "TRJReader.read_next"})
                 => trj'.frame = 0 /\ trj'.pos = FrameCoords(trj'.n_atoms, 0)
            /\ (result' = "ok" /\ call'.op = "TRJReader.read_frame" /\ call'.k >= 0)
                 => trj'.frame = call'.k]_vars

\* a read on a closed file opened a file whose title has exactly 80 characters
\* and trailing whitespace, after the reader had been at a later frame
C27_Witness ==
    /\ call.op = "TRJReader.read_next" /\ trj.wasclosed /\ result = "ok"
    /\ afile.header = Title(HeaderLimit, 3)
    /\ trj.frame = 0 /\ trj.opens = 2 /\ trj.n_frames > 1

\* C29: once the constructor of the ASCII reader has returned, periodic is
\* True or False and no operation (read_next, read_frame, n_frames, close,
\* reopen), on a file that may change meanwhile, changes it; the detection has
\* run once and does not run again; and the constructor leaves the reader with
\* frame 0 in its buffer, frame index 0, and the file open.
C29_PeriodicFixed ==
    /\ [](trj.status = "constructed"
            => trj.periodic \in {"True", "False"} /\ trj.probes = 1)
    /\ [][trj.status = "constructed"
            => trj'.periodic = trj.periodic /\ trj'.probes = trj.probes]_vars
    /\ [][(call'.op = "TRJReader" /\ result' = "ok")
            => /\ trj'.status = "constructed"
               /\ trj'.frame = 0 /\ trj'.pos = FrameCoords(trj'.n_atoms, 0)
               /\ trj'.trjfile # Closed]_vars

\* a reader of a file with boxes that has counted the frames, was closed and
\* has read again
C29_Witness ==
    /\ call.op = "TRJReader.read_next" /\ trj.wasclosed /\ result = "ok"
    /\ trj.periodic = "True" /\ afile.periodic /\ trj.scans >= 1 /\ trj.probes = 1

----------------------------------------------------------------------------
(* Claims about the order of the reader's checks (SpecO) *)

\* the steps of the validation sequence that can raise, and those that warn
HardSteps == {1, 2, 3, 4, 6, 7, 9, 10, 11, 12}
WarnSteps == {2, 5}

\* the container nc, opened with atom count n_arg, violates the hard check of
\* step s
Violates(nc, n_arg, s) ==
    CASE s = 1 -> \/ ~HasAttr(nc, "Conventions")
                  \/ "AMBER" \notin ConventionTokens(nc.attrs["Conventions"])
      [] s = 2 -> ~HasAttr(nc, "ConventionVersion")
      [] s = 3 -> nc.version_byte # 2
      [] s = 4 -> ~HasDim(nc, "spatial") \/ nc.dims["spatial"] # 3
      [] s = 6 -> \/ ~HasDim(nc, "atom")
                  \/ n_arg # NoData /\ n_arg[1] # nc.dims["atom"]
      [] s = 7 -> ~HasDim(nc, "frame")
      [] s = 9 -> \/ nc.units["time"] # "picosecond"
                  \/ nc.units["coordinates"] # "angstrom"
      [] s = 10 -> \E v \in nc.vars :
                      HasScaleAttr(nc, v) /\ (v \notin ScaleVars \/ ~IsFloat(nc.scale[v]))
      [] s = 11 -> \/ "velocities" \in nc.vars
                       /\ nc.units["velocities"] # "angstrom/picosecond"
                   \/ "forces" \in nc.vars
                       /\ nc.units["forces"] # "kilocalorie/mole/angstrom"
      [] s = 12 -> /\ "cell_lengths" \in nc.vars
                   /\ \/ nc.units["cell_lengths"] # "angstrom"
                      \/ nc.units["cell_angles"] # "degree"

\* the exceptions that the check of step s raises
StepErrors(s) ==
    CASE s \in {1, 4} -> {"TypeError", "ValueError"}
      [] s \in {2, 6, 7} -> {"ValueError"}
      [] s = 3 -> {"TypeError"}
      [] s = 10 -> {"TypeError", "NotImplementedError"}
      [] s \in {9, 11, 12} -> {"NotImplementedError"}

\* the container nc gives cause for the warning of step s
Warns(nc, s) ==
    CASE s = 2 -> HasAttr(nc, "ConventionVersion") /\ nc.attrs["ConventionVersion"] # "1.0"
      [] s = 5 -> ~(HasAttr(nc, "program") /\ HasAttr(nc, "programVersion"))

WarningOf(s) == IF s = 2 THEN "ConventionVersion" ELSE "program"

Earliest(S) == CHOOSE s \in S : \A t \in S : s <= t

\* the hard checks that the container on the file violates for the call made
ViolatedBy(c) ==
    {s \in HardSteps :
        Violates(disk, IF c.n_atoms = -1 THEN NoData ELSE <<c.n_atoms>>, s)}

\* C28: the constructor of NCDFReader, given a container that violates one or
\* more of the hard checks, raises at the earliest violated step of the
\* sequence 1..12 with an exception of that step, and has by then emitted
\* exactly the warnings of the warn-only steps (2 and 5) that come earlier and
\* apply; given a container that violates none, no check raises.
C28_ValidationOrder ==
    [][call'.op = "NCDFReader"
        => IF ViolatedBy(call') # {}
           THEN /\ rstatus' = "failed"
                /\ caller'.failed_at = Earliest(ViolatedBy(call'))
                /\ result' \in StepErrors(caller'.failed_at)
                /\ caller'.warned =
                     {WarningOf(s) : s \in {w \in WarnSteps : w < caller'.failed_at
                                                              /\ Warns(disk, w)}}
           ELSE /\ caller'.failed_at \notin HardSteps
                /\ caller'.warned = {WarningOf(s) : s \in {w \in WarnSteps : Warns(disk, w)}}]_vars

\* a container of the 32-bit kind that lacks the atom dimension as well was
\* refused for its version byte
C28_Witness ==
    /\ call.op = "NCDFReader" /\ rstatus = "failed"
    /\ caller.failed_at = 3 /\ result = "TypeError"
    /\ 6 \in ViolatedBy(call)

----------------------------------------------------------------------------
(* Claims about the frame buffers (SpecB) *)

\* what is seen through the handed buffer h when the ASCII reader is r and the
\* binary reader's Timestep is t
Seen(h, r, t) ==
    IF h.ref = "copy" THEN h.copy
    ELSE IF h.of = "TRJReader" THEN Timestep(r) ELSE t

ReadCalls == {"TRJReader.read_next", "TRJReader.read_frame", "read_next", "read_frame"}

\* the attributes of the writer that a write call assigns
WrittenAttributes == {"first_frame", "trjfile", "periodic", "curr_frame"}

\* C26 as stated: the frame buffer that a read handed to the caller is not
\* modified by anything done later (a read, a seek, a reopen), and a write call
\* leaves the writer without a reference to the frame it was given.
C26_BuffersNotRetained ==
    /\ [][caller.held.ref # "none"
            => Seen(caller.held, trj', ts') = Seen(caller.held, trj, ts)]_vars
    /\ [][call'.op = "write_frame"
            => \A a \in DOMAIN writer \ WrittenAttributes : writer'[a] = writer[a]]_vars

\* C26 amended: each reader keeps one Timestep and hands this very object to
\* the caller at every read, so after a later successful read the buffer handed
\* out before shows the frame read last, and after a reopen of the ASCII reader
\* it shows frame index -1; a reopen of the binary reader leaves its Timestep
\* alone.  A write call assigns nothing on the writer but the file, the frame
\* counter and the two flags of the first frame: no reference to the frame.
C26_ReaderOwnsBuffer ==
    /\ [](caller.held.ref \in {"none", "self.ts"})
    /\ [][(call'.op \in ReadCalls /\ result' = "ok" /\ caller.held.of = caller'.held.of)
            => Seen(caller.held, trj', ts') = Seen(caller'.held, trj', ts')]_vars
    /\ [][(call'.op = "TRJReader.reopen" /\ result' = "ok" /\ caller.held.of = "TRJReader")
            => Seen(caller.held, trj', ts').frame = -1]_vars
    /\ [][call'.op = "reopen" => ts' = ts]_vars
    /\ [][call'.op = "write_frame"
            => /\ DOMAIN writer' = DOMAIN writer
               /\ \A a \in DOMAIN writer \ WrittenAttributes : writer'[a] = writer[a]]_vars

\* the caller was handed the buffer of the ASCII reader and then, after a frame
\* was written, the buffer of the binary reader, and each reader had read on
C26_Witness ==
    /\ trj.frame >= 1
    /\ Len(written) >= 1
    /\ caller.held = HandOver("NCDFReader", ts)
    /\ call.op = "read_next" /\ result = "ok" /\ ts.frame >= 1

----------------------------------------------------------------------------
(* Claims about the picklable handle (SpecP) *)

\* what identifies a handle: path, memory-map flag, version byte, mask/scale flag
Descriptor(h) == <<h.filename, h.use_mmap, h.version_byte, h.maskandscale>>

\* C24: the pickled state of a handle is its path, memory-map flag, version
\* byte and mask/scale flag and nothing else; a handle made from that state is
\* a new open handle, made by __init__ with that path and these three flags,
\* whose descriptor equals the one of the handle that was pickled; closing a
\* handle leaves every other handle as it is.
C24_PickleRoundTrip ==
    /\ [](pickle # NoData
             => (Len(pickle.state) = 4 /\ pickle.state = Descriptor(handles[pickle.of])))
    /\ [](\A i \in 1 .. Len(handles) :
             handles[i].origin # 0 =>
                LET o == handles[handles[i].origin]
                IN  /\ Descriptor(handles[i]) = Descriptor(o)
                    /\ handles[i].args = <<o.use_mmap, o.version_byte, o.maskandscale>>)
    /\ [][(call'.op = "NCDFPicklable.__setstate__" /\ result' = "ok") =>
             /\ Len(handles') = Len(handles) + 1
             /\ handles'[Len(handles')].open
             /\ \A i \in 1 .. Len(handles) : handles'[i] = handles[i]]_vars
    /\ [][call'.op = "NCDFPicklable.close" =>
             /\ ~handles'[call'.k].open
             /\ \A i \in 1 .. Len(handles) : i # call'.k => handles'[i] = handles[i]]_vars

\* the handle that was pickled is closed and the handle made from its state,
\* which does not map the file, is open
C24_Witness ==
    /\ Len(handles) = 2 /\ handles[2].origin = 1
    /\ call.op = "NCDFPicklable.close" /\ call.k = 1
    /\ ~handles[1].open /\ handles[2].open
    /\ handles[2].use_mmap = "False" /\ handles[2].maskandscale

----------------------------------------------------------------------------
(* Claims about the reader's operations (SpecR) *)

\* C2: on an open reader read_frame(k) with k < 0 or k >= n_frames raises
\* IndexError and leaves the frame buffer and the cursor as they were.
C2_IndexError ==
    [][(/\ rstatus = "constructed" /\ reader.trjfile = "open"
        /\ call'.op = "read_frame"
        /\ (call'.k < 0 \/ call'.k >= reader.n_frames))
          => (result' = "IndexError" /\ ts' = ts /\ reader' = reader)]_vars

\* a read past the last frame was refused while the buffer holds the last frame
C2_Witness ==
    /\ reader.trjfile = "open" /\ call.op = "read_frame" /\ call.k = reader.n_frames
    /\ result = "IndexError" /\ ts.frame = reader.n_frames - 1 /\ reader.n_frames = 2

\* C3: with cursor c on an open reader, read_next is read_frame(c+1): when
\* c+1 < n_frames it returns frame c+1 and sets frame_index and cursor to c+1;
\* otherwise it raises IOError and changes neither the cursor nor the frame
\* buffer, so that read_next keeps raising IOError until a read_frame or reopen.
C3_ReadNext ==
    [][(rstatus = "constructed" /\ reader.trjfile = "open" /\ call'.op = "read_next")
          => IF reader.current_frame + 1 < reader.n_frames
             THEN /\ result' = "ok"
                  /\ ts'.frame = reader.current_frame + 1
                  /\ reader'.current_frame = reader.current_frame + 1
                  /\ ts' = read_frame_ts(reader, disk, ts, reader.current_frame + 1)
                  /\ ts'.time = written[reader.current_frame + 2].time
             ELSE /\ result' = "IOError"
                  /\ ts' = ts /\ reader' = reader
                  /\ reader.current_frame = reader.n_frames - 1]_vars

\* read_next after reopen gave frame 0 again
C3_Witness ==
    /\ call.op = "read_next" /\ result = "ok" /\ ts.frame = 0
    /\ reader.current_frame = 0 /\ reader.n_frames = 2

\* C4: once the reader is closed it stays closed, read_frame(k) for every k
\* and read_next raise IOError and leave the frame buffer alone, and close()
\* can be repeated.
C4_Closed ==
    [][(rstatus = "constructed" /\ reader.trjfile = "None")
          => /\ reader'.trjfile = "None"
             /\ call'.op \in {"read_frame", "read_next"}
                   => (result' = "IOError" /\ ts' = ts /\ reader' = reader)
             /\ call'.op = "NCDFReader.close"
                   => (result' = "ok" /\ reader' = reader /\ ts' = ts)]_vars

\* a read of an index out of range was refused on a closed reader
C4_Witness ==
    /\ rstatus = "constructed" /\ reader.trjfile = "None"
    /\ call.op = "read_frame" /\ call.k = reader.n_frames /\ result = "IOError"

====
